---- MODULE Spec2Model ----
(***************************************************************************)
(* Layered storage device model of nixos-setup: disks, partitions, LUKS    *)
(* mappers, LVM volume groups and ZFS pools, with the open/close,          *)
(* mount/unmount and create/format handlers of the device tree.            *)
(*                                                                         *)
(* The in-memory tree (fs), the kernel's device/mapper/pool namespace      *)
(* (world) and the record of the last handler that ran (last) are the      *)
(* state.  Every handler is one action: it runs the whole Rust function,   *)
(* appending each external command it issues to a log.  Any state-changing *)
(* external command may fail; the failing command is chosen by the action  *)
(* (fail = position of the failing command in the handler's log, 0 for a   *)
(* run without failure).                                                   *)
(***************************************************************************)
EXTENDS Integers, Sequences, FiniteSets, TLC

\* Bounds of the model.
MaxDisks == 2
MaxParts == 2
MaxVolumes == 2
MaxZfs == 1
MaxPools == 3
MaxValue == 10

VARIABLES fs, world, last

vars == <<fs, world, last>>

-----------------------------------------------------------------------------
\* Results (error::Return) and Option<String>.

Ok == "Ok"

Panic == "panic: called Option::unwrap() on a None value"

None == "None"

generic_error(description) == "(GENERIC) " \o description

-----------------------------------------------------------------------------
\* gpt.rs: sizes and type tags.

SizeUnit_to_string(unit) ==
    CASE unit = "Byte" -> ""
      [] unit = "Kilo" -> "K"
      [] unit = "Mega" -> "M"
      [] unit = "Giga" -> "G"
      [] unit = "Tera" -> "T"
      [] unit = "Peta" -> "P"

Bytesize_is_null(size) == size.value = 0

\* Faulty variant of Bytesize_to_string: the unit is not printed.
Bytesize_to_string_no_unit(size) ==
    IF size.value = 0 THEN "0" ELSE ToString(size.value)

Bytesize_to_string(size) ==
    IF size.value = 0 THEN "0"
    ELSE ToString(size.value) \o SizeUnit_to_string(size.unit)

Bytesize_to_gpt_string(size) ==
    IF size.value = 0 THEN "0" ELSE "+" \o Bytesize_to_string(size)

PartitionType_from_str(input) ==
    CASE input \in {"efi", "ef00"} -> "Efi"
      [] input \in {"linux", "8300"} -> "Linux"
      [] OTHER -> generic_error("Invalid partition type")

PartitionType_to_gpt_string(t) == IF t = "Efi" THEN "ef00" ELSE "8300"

FsType_from_str(input) ==
    CASE input = "ext4" -> "Ext4"
      [] input = "fat32" -> "Fat32"
      [] input = "zfs" -> "Zfs"
      [] input = "lvm" -> "Lvm"
      [] input = "swap" -> "Swap"
      [] OTHER -> generic_error("Invalid enum value " \o input)

-----------------------------------------------------------------------------
\* The external namespace and the effect of each tool on it.
\*   mapper    names of the active device-mapper (LUKS) mappings
\*   vgs       names of the active volume groups
\*   pools     names of the imported (visible) pools, in listing order
\*   exported  names of the exported (importable) pools
\*   table     partition table entries, one [disk, n] per entry
\*   mounted   devices currently mounted
\*   unlinked  names of the partition devices that /dev/disk/by-id does
\*             not link to

EmptyWorld ==
    [mapper |-> {}, vgs |-> {}, pools |-> <<>>, exported |-> <<>>,
     table |-> {}, mounted |-> {}, unlinked |-> {}]

Range(s) == {s[i] : i \in DOMAIN s}

Without(s, x) == SelectSeq(s, LAMBDA y : y # x)

RECURSIVE AppendNew(_, _)
AppendNew(s, t) ==
    IF t = <<>> THEN s
    ELSE AppendNew(IF Head(t) \in Range(s) THEN s ELSE Append(s, Head(t)),
                   Tail(t))

\* sgdisk -n 0:... takes the first free partition number of the disk.
NextFree(w, disk) ==
    CHOOSE n \in 1..(Cardinality(w.table) + 1) :
        /\ [disk |-> disk, n |-> n] \notin w.table
        /\ \A k \in 1..(n - 1) : [disk |-> disk, n |-> k] \in w.table

Effect(w, cmd) ==
    CASE cmd[1] = "cryptsetup" /\ cmd[2] = "luksOpen" ->
            [w EXCEPT !.mapper = @ \cup {cmd[4]}]
      [] cmd[1] = "cryptsetup" /\ cmd[2] = "luksClose" ->
            [w EXCEPT !.mapper = {l \in @ : "/dev/mapper/" \o l # cmd[3]}]
      [] cmd[1] = "vgchange" /\ cmd[3] = "y" ->
            [w EXCEPT !.vgs = @ \cup {cmd[4]}]
      [] cmd[1] = "vgchange" /\ cmd[3] = "n" ->
            [w EXCEPT !.vgs = @ \ {cmd[4]}]
      [] cmd[1] = "vgcreate" ->
            [w EXCEPT !.vgs = @ \cup {cmd[2]}]
      [] cmd[1] = "zpool" /\ cmd[2] = "create" ->
            [w EXCEPT !.pools = AppendNew(@, <<cmd[9]>>)]
      [] cmd[1] = "zpool" /\ cmd[2] = "destroy" ->
            [w EXCEPT !.pools = Without(@, cmd[4])]
      [] cmd[1] = "zpool" /\ cmd[2] = "import" ->
            [w EXCEPT !.pools = AppendNew(@, w.exported), !.exported = <<>>]
      [] cmd[1] = "zpool" /\ cmd[2] = "export" ->
            [w EXCEPT !.exported = AppendNew(@, w.pools), !.pools = <<>>]
      [] cmd[1] = "sgdisk" /\ cmd[2] = "-Z" ->
            [w EXCEPT !.table = {e \in @ : e.disk # cmd[3]}]
      [] cmd[1] = "sgdisk" /\ cmd[2] = "-n" ->
            [w EXCEPT !.table =
                @ \cup {[disk |-> cmd[8], n |-> NextFree(w, cmd[8])]}]
      [] cmd[1] = "mount" ->
            [w EXCEPT !.mounted =
                @ \cup {IF cmd[2] = "-t" THEN cmd[4] ELSE cmd[2]}]
      [] cmd[1] = "umount" ->
            [w EXCEPT !.mounted = @ \ {cmd[2]}]
      [] OTHER -> w

-----------------------------------------------------------------------------
\* utils.rs: running external commands.  A handler runs in a context m:
\* the tree, the namespace, the commands issued so far, the result so far
\* and the position of the command that fails.  broken is the position of a
\* status query that cannot be run at all (0: every query runs).

CtxBroken(f, w, k, q) ==
    [fs |-> f, world |-> w, log |-> <<>>, res |-> Ok, fail |-> k, broken |-> q]

Ctx(f, w, k) == CtxBroken(f, w, k, 0)

command_error(command) ==
    generic_error(command \o " command returned an error")

\* Faulty variant of command_output: a failing command is run a second
\* time before its error is returned.
command_output_retry(m, cmd) ==
    IF m.res # Ok THEN m
    ELSE IF Len(m.log) + 1 = m.fail
         THEN [m EXCEPT !.log = Append(Append(@, cmd), cmd),
                        !.res = command_error(cmd[1])]
         ELSE [m EXCEPT !.log = Append(@, cmd), !.world = Effect(@, cmd)]

command_output(m, cmd) ==
    IF m.res # Ok THEN m
    ELSE IF Len(m.log) + 1 = m.fail
         THEN [m EXCEPT !.log = Append(@, cmd), !.res = command_error(cmd[1])]
         ELSE [m EXCEPT !.log = Append(@, cmd), !.world = Effect(@, cmd)]

spawn_command(m, cmd) == command_output(m, cmd)

\* A command whose exit status is the answer (cryptsetup status <mapper>,
\* zpool list <name>): the caller maps Err to false instead of returning
\* it, so the command is issued and answers from the namespace; a query
\* that cannot be run answers false.
command_query(m, cmd) ==
    IF m.res # Ok THEN m ELSE [m EXCEPT !.log = Append(@, cmd)]

Answered(q) == Len(q.log) # q.broken

Fail(m, r) == IF m.res # Ok THEN m ELSE [m EXCEPT !.res = r]

-----------------------------------------------------------------------------
\* luks.rs

luks_format(m, device, passphrase) ==
    spawn_command(m,
        <<"cryptsetup", "luksFormat", "-c", "aes-xts-plain64", "-s", "256",
          "-h", "sha512", "--type", "luks1", "-q", device, "-">>)

luks_add_key(m, device, passphrase, key_file) ==
    spawn_command(m, <<"cryptsetup", "luksAddKey", device, key_file, "-">>)

luks_is_opened(q, label) == Answered(q) /\ label \in q.world.mapper

\* Faulty variant of luks_open: the answer of the status query is ignored.
luks_open_always(m, device, passphrase, label) ==
    IF m.res # Ok THEN m
    ELSE spawn_command(
            command_query(m, <<"cryptsetup", "status", "/dev/mapper/" \o label>>),
            <<"cryptsetup", "luksOpen", device, label, "-">>)

luks_open(m, device, passphrase, label) ==
    IF m.res # Ok THEN m
    ELSE LET q == command_query(m,
                    <<"cryptsetup", "status", "/dev/mapper/" \o label>>)
         IN  IF luks_is_opened(q, label) THEN q
             ELSE spawn_command(q, <<"cryptsetup", "luksOpen", device, label, "-">>)

luks_close(m, label) ==
    command_output(m, <<"cryptsetup", "luksClose", "/dev/mapper/" \o label>>)

-----------------------------------------------------------------------------
\* lvm.rs: the volume group of partition p of disk d.

Part(m, d, p) == m.fs[d].partitions[p]

Lvm_is_valid(lvm) == lvm.volumes # <<>>

Lvm_open(m, d, p) ==
    IF m.res # Ok THEN m
    ELSE IF Part(m, d, p).lvm.opened THEN m
    ELSE LET m1 == command_output(m,
                    <<"vgchange", "-a", "y",
                      "vg-" \o Part(m, d, p).lvm.partition_label>>)
         IN  IF m1.res # Ok THEN m1
             ELSE [m1 EXCEPT !.fs[d].partitions[p].lvm.opened = TRUE]

\* Faulty variant of Lvm_close: the opened flag is not tested.
Lvm_close_unguarded(m, d, p) ==
    LET m1 == command_output(m,
                <<"vgchange", "-a", "n",
                  "vg-" \o Part(m, d, p).lvm.partition_label>>)
    IN  IF m1.res # Ok THEN m1
        ELSE [m1 EXCEPT !.fs[d].partitions[p].lvm.opened = FALSE]

Lvm_close(m, d, p) ==
    IF m.res # Ok THEN m
    ELSE IF ~Part(m, d, p).lvm.opened THEN m
    ELSE LET m1 == command_output(m,
                    <<"vgchange", "-a", "n",
                      "vg-" \o Part(m, d, p).lvm.partition_label>>)
         IN  IF m1.res # Ok THEN m1
             ELSE [m1 EXCEPT !.fs[d].partitions[p].lvm.opened = FALSE]

-----------------------------------------------------------------------------
\* partition.rs: impl Openable for Partition.

\* Option::unwrap: a None value aborts the process.
Unwrap(m, v) == IF v = None THEN Fail(m, Panic) ELSE m

Partition_open_luks(m, d, p, passphrase) ==
    IF m.res # Ok \/ ~Part(m, d, p).config.encrypted THEN m
    ELSE LET m1 == Unwrap(m, Part(m, d, p).config.device_by_id)
         IN  luks_open(m1, Part(m, d, p).config.device_by_id, passphrase,
                       Part(m, d, p).config.label)

Partition_open_lvm(m, d, p) ==
    IF m.res # Ok \/ ~Lvm_is_valid(Part(m, d, p).lvm) THEN m
    ELSE Lvm_open(m, d, p)

\* Faulty variant of Partition_open: the volume group is activated before the
\* encryption is opened.
Partition_open_lvm_first(m, d, p, passphrase) ==
    IF m.res # Ok THEN m
    ELSE IF Part(m, d, p).opened THEN m
    ELSE LET m1 == Partition_open_lvm(m, d, p)
             m2 == Partition_open_luks(m1, d, p, passphrase)
         IN  IF m2.res # Ok THEN m2
             ELSE [m2 EXCEPT !.fs[d].partitions[p].opened = TRUE]

Partition_open(m, d, p, passphrase) ==
    IF m.res # Ok THEN m
    ELSE IF Part(m, d, p).opened THEN m
    ELSE LET m1 == Partition_open_luks(m, d, p, passphrase)
             m2 == Partition_open_lvm(m1, d, p)
         IN  IF m2.res # Ok THEN m2
             ELSE [m2 EXCEPT !.fs[d].partitions[p].opened = TRUE]

Partition_close_lvm(m, d, p) ==
    IF m.res # Ok \/ ~Lvm_is_valid(Part(m, d, p).lvm) THEN m
    ELSE Lvm_close(m, d, p)

Partition_close_luks(m, d, p) ==
    IF m.res # Ok \/ ~Part(m, d, p).config.encrypted THEN m
    ELSE luks_close(m, Part(m, d, p).config.label)

Partition_close(m, d, p) ==
    IF m.res # Ok THEN m
    ELSE IF ~Part(m, d, p).opened THEN m
    ELSE LET m1 == Partition_close_lvm(m, d, p)
             m2 == Partition_close_luks(m1, d, p)
         IN  IF m2.res # Ok THEN m2
             ELSE [m2 EXCEPT !.fs[d].partitions[p].opened = FALSE]

-----------------------------------------------------------------------------
\* impl Mountable for Partition (partition.rs), Volume (lvm.rs) and
\* Filesystem (zfs.rs).

Vol(m, d, p, v) == Part(m, d, p).lvm.volumes[v]

Zfs(m, d, p, z) == Part(m, d, p).zfs.filesystems[z]

\* Faulty variant of Partition_mount: the mounted flag is not tested.
Partition_mount_unguarded(m, d, p, mountpoint) ==
    LET device == Part(m, d, p).config.device_by_id
        m1 == command_output(Unwrap(m, device), <<"mount", device, mountpoint>>)
    IN  IF m1.res # Ok THEN m1
        ELSE [m1 EXCEPT !.fs[d].partitions[p].mounted = TRUE]

\* Faulty variant of Partition_mount: an encrypted partition is mounted
\* through its mapper.
Partition_mount_mapper(m, d, p, mountpoint) ==
    IF m.res # Ok THEN m
    ELSE IF Part(m, d, p).mounted THEN m
    ELSE LET device == IF Part(m, d, p).config.encrypted
                       THEN Part(m, d, p).config.luks_mapper
                       ELSE Part(m, d, p).config.device_by_id
             m1 == command_output(Unwrap(m, device),
                                  <<"mount", device, mountpoint>>)
         IN  IF m1.res # Ok THEN m1
             ELSE [m1 EXCEPT !.fs[d].partitions[p].mounted = TRUE]

Partition_mount(m, d, p, mountpoint) ==
    IF m.res # Ok THEN m
    ELSE IF Part(m, d, p).mounted THEN m
    ELSE LET device == Part(m, d, p).config.device_by_id
             m1 == command_output(Unwrap(m, device),
                                  <<"mount", device, mountpoint>>)
         IN  IF m1.res # Ok THEN m1
             ELSE [m1 EXCEPT !.fs[d].partitions[p].mounted = TRUE]

\* Faulty variant of Partition_unmount: the mounted flag is cleared before
\* the command is run.
Partition_unmount_flag_first(m, d, p) ==
    IF m.res # Ok THEN m
    ELSE IF ~Part(m, d, p).mounted THEN m
    ELSE LET device == Part(m, d, p).config.device_by_id
             m0 == IF device = None
                   THEN Fail(m, generic_error("No device for partition"))
                   ELSE [m EXCEPT !.fs[d].partitions[p].mounted = FALSE]
         IN  command_output(m0, <<"umount", device>>)

Partition_unmount(m, d, p) ==
    IF m.res # Ok THEN m
    ELSE IF ~Part(m, d, p).mounted THEN m
    ELSE LET device == Part(m, d, p).config.device_by_id
             m0 == IF device = None
                   THEN Fail(m, generic_error("No device for partition"))
                   ELSE m
             m1 == command_output(m0, <<"umount", device>>)
         IN  IF m1.res # Ok THEN m1
             ELSE [m1 EXCEPT !.fs[d].partitions[p].mounted = FALSE]

Volume_mount(m, d, p, v, mountpoint) ==
    IF m.res # Ok THEN m
    ELSE IF Vol(m, d, p, v).mounted THEN m
    ELSE LET device == Vol(m, d, p, v).config.device
             m0 == IF device = None
                   THEN Fail(m, generic_error("No device for volume"))
                   ELSE m
             m1 == command_output(m0, <<"mount", device, mountpoint>>)
         IN  IF m1.res # Ok THEN m1
             ELSE [m1 EXCEPT !.fs[d].partitions[p].lvm.volumes[v].mounted = TRUE]

Volume_unmount(m, d, p, v) ==
    IF m.res # Ok THEN m
    ELSE IF ~Vol(m, d, p, v).mounted THEN m
    ELSE LET device == Vol(m, d, p, v).config.device
             m0 == IF device = None
                   THEN Fail(m, generic_error("No device for volume"))
                   ELSE m
             m1 == command_output(m0, <<"umount", device>>)
         IN  IF m1.res # Ok THEN m1
             ELSE [m1 EXCEPT !.fs[d].partitions[p].lvm.volumes[v].mounted = FALSE]

Filesystem_mount(m, d, p, z, mountpoint) ==
    IF m.res # Ok THEN m
    ELSE IF Zfs(m, d, p, z).mounted THEN m
    ELSE LET device == Zfs(m, d, p, z).pool \o "/" \o Zfs(m, d, p, z).config.name
             m1 == command_output(m, <<"mount", "-t", "zfs", device, mountpoint>>)
         IN  IF m1.res # Ok THEN m1
             ELSE [m1 EXCEPT
                     !.fs[d].partitions[p].zfs.filesystems[z].mounted = TRUE]

Filesystem_unmount(m, d, p, z) ==
    IF m.res # Ok THEN m
    ELSE IF ~Zfs(m, d, p, z).mounted THEN m
    ELSE LET device == Zfs(m, d, p, z).pool \o "/" \o Zfs(m, d, p, z).config.name
             m1 == command_output(m, <<"umount", device>>)
         IN  IF m1.res # Ok THEN m1
             ELSE [m1 EXCEPT
                     !.fs[d].partitions[p].zfs.filesystems[z].mounted = FALSE]

-----------------------------------------------------------------------------
\* zfs.rs: pools.

pool_import_all(m) == command_output(m, <<"zpool", "import", "-a">>)

pool_export_all(m) == command_output(m, <<"zpool", "export", "-a">>)

pool_add(m, name, device) ==
    command_output(m, <<"zpool", "add", "-f", name, device>>)

pool_destroy(m, name) == command_output(m, <<"zpool", "destroy", "-f", name>>)

\* zpool list <name> exits with success exactly when the pool is imported.
pool_exists(q, name) == Answered(q) /\ name \in Range(q.world.pools)

\* Faulty variant of pool_create: the name is tested before the pools are
\* imported.
pool_create_test_first(m, name, device) ==
    LET m1 == command_query(m, <<"zpool", "list", name>>)
        m2 == pool_import_all(m1)
    IN  IF m2.res # Ok THEN m2
        ELSE IF pool_exists(m1, name) THEN pool_add(m2, name, device)
        ELSE command_output(pool_export_all(m2),
                <<"zpool", "create", "-o", "ashift=12", "-O", "compression=lz4",
                  "-m", "none", name, device>>)

\* Faulty variant of pool_create: the pool is created whether or not it is visible.
pool_create_always(m, name, device) ==
    LET m1 == pool_import_all(m)
        m2 == command_query(m1, <<"zpool", "list", name>>)
    IN  command_output(pool_export_all(m2),
            <<"zpool", "create", "-o", "ashift=12", "-O", "compression=lz4",
              "-m", "none", name, device>>)

pool_create(m, name, device) ==
    LET m1 == pool_import_all(m)
        m2 == command_query(m1, <<"zpool", "list", name>>)
    IN  IF m2.res # Ok THEN m2
        ELSE IF pool_exists(m2, name) THEN pool_add(m2, name, device)
        ELSE command_output(pool_export_all(m2),
                <<"zpool", "create", "-o", "ashift=12", "-O", "compression=lz4",
                  "-m", "none", name, device>>)

zfs_create(m, pool, name) ==
    command_output(m,
        <<"zfs", "create", pool \o "/" \o name, "-o", "mountpoint=legacy">>)

RECURSIVE destroy_each(_, _)
destroy_each(m, names) ==
    IF m.res # Ok \/ names = <<>> THEN m
    ELSE destroy_each(pool_destroy(m, Head(names)), Tail(names))

wipeout(m) ==
    LET m1 == command_output(m, <<"zpool", "list", "-H", "-o", "name">>)
    IN  IF m1.res # Ok THEN m1 ELSE destroy_each(m1, m.world.pools)

Filesystems_is_valid(zfs) == zfs.filesystems # <<>>

RECURSIVE Filesystems_create_from(_, _, _, _)
Filesystems_create_from(m, d, p, z) ==
    IF m.res # Ok \/ z > Len(Part(m, d, p).zfs.filesystems) THEN m
    ELSE Filesystems_create_from(
            zfs_create(m, Zfs(m, d, p, z).pool, Zfs(m, d, p, z).config.name),
            d, p, z + 1)

Filesystems_create(m, d, p) == Filesystems_create_from(m, d, p, 1)

-----------------------------------------------------------------------------
\* gpt.rs: table and formatting commands.

gpt_wipeout(m, device) == command_output(m, <<"sgdisk", "-Z", device>>)

create_partition(m, device, size, partition_type, label) ==
    command_output(m,
        <<"sgdisk",
          "-n", "0:0:" \o Bytesize_to_gpt_string(size),
          "-t", "0:" \o PartitionType_to_gpt_string(partition_type),
          "-c", "0:" \o label,
          device>>)

format_fat32(m, device, label) ==
    command_output(m, <<"mkfs.fat", "-F", "32", "-n", label, device>>)

format_ext4(m, device, label) ==
    command_output(m, <<"mkfs.ext4", "-L", label, device>>)

format_zfs(m, device, label) == pool_create(m, label, device)

format_swap(m, device, label) ==
    command_output(m, <<"mkswap", "-L", label, device>>)

format_partition(m, device, format, label) ==
    IF m.res # Ok THEN m
    ELSE LET fs_type == FsType_from_str(format)
         IN  CASE fs_type = "Fat32" -> format_fat32(m, device, label)
               [] fs_type = "Ext4" -> format_ext4(m, device, label)
               [] fs_type = "Zfs" -> format_zfs(m, device, label)
               [] fs_type = "Swap" -> format_swap(m, device, label)
               [] fs_type = "Lvm" ->
                    Fail(m, generic_error("Invalid partition format"))
               [] OTHER -> Fail(m, fs_type)

-----------------------------------------------------------------------------
\* lvm.rs: creation of the volume group and its volumes.

Lvm_pv_create(m, device) == command_output(m, <<"pvcreate", "-y", "-ff", device>>)

Lvm_vg_create(m, device, label) ==
    command_output(m, <<"vgcreate", "vg-" \o label, device>>)

Volume_create(m, d, p, v, partition_label) ==
    IF m.res # Ok THEN m
    ELSE LET c == Vol(m, d, p, v).config
             opt_size == IF Bytesize_is_null(c.size) THEN "-l" ELSE "-L"
             size == IF Bytesize_is_null(c.size) THEN "100%FREE"
                     ELSE Bytesize_to_string(c.size)
             vg == "vg-" \o partition_label
             m1 == command_output(m,
                     <<"lvcreate", opt_size, size, "-n", c.label, vg>>)
         IN  IF m1.res # Ok THEN m1
             ELSE [m1 EXCEPT
                     !.fs[d].partitions[p].lvm.volumes[v].config.device =
                         "/dev/" \o vg \o "/" \o c.label]

\* Faulty variant of Volume_format: the volume is formatted by the filesystem type
\* of its partition.
Volume_format_as_partition(m, d, p, v) ==
    IF m.res # Ok THEN m
    ELSE LET c == Vol(m, d, p, v).config
         IN  IF c.device = None
             THEN Fail(m, generic_error("No volume device"))
             ELSE format_partition(m, c.device, Part(m, d, p).config.fs_type,
                                   c.label)

Volume_format(m, d, p, v) ==
    IF m.res # Ok THEN m
    ELSE LET c == Vol(m, d, p, v).config
         IN  IF c.device = None
             THEN Fail(m, generic_error("No volume device"))
             ELSE format_partition(m, c.device, c.fs_type, c.label)

RECURSIVE Lvm_volumes_create_from(_, _, _, _, _)
Lvm_volumes_create_from(m, d, p, v, partition_label) ==
    IF m.res # Ok \/ v > Len(Part(m, d, p).lvm.volumes) THEN m
    ELSE Lvm_volumes_create_from(Volume_create(m, d, p, v, partition_label),
                                 d, p, v + 1, partition_label)

Lvm_create(m, d, p, device, label) ==
    IF m.res # Ok THEN m
    ELSE IF ~Lvm_is_valid(Part(m, d, p).lvm) THEN m
    ELSE LET m1 == Lvm_pv_create(m, device)
             m2 == Lvm_vg_create(m1, device, label)
             m3 == Lvm_volumes_create_from(m2, d, p, 1, label)
         IN  IF m3.res # Ok THEN m3
             ELSE [m3 EXCEPT !.fs[d].partitions[p].lvm.opened = TRUE]

RECURSIVE Lvm_format_volumes_from(_, _, _, _)
Lvm_format_volumes_from(m, d, p, v) ==
    IF m.res # Ok \/ v > Len(Part(m, d, p).lvm.volumes) THEN m
    ELSE Lvm_format_volumes_from(Volume_format(m, d, p, v), d, p, v + 1)

Lvm_format_volumes(m, d, p) == Lvm_format_volumes_from(m, d, p, 1)

-----------------------------------------------------------------------------
\* partition.rs: creation, device resolution and formatting.

\* Names of the disks of the model; a disk device is "/dev/" \o name.
DiskNames == <<"sda", "sdb", "sdc", "sdd">>

\* The partition numbers in the table of disk `device`, as fdisk -l lists them.
DiskEntries(w, device) == {e.n : e \in {x \in w.table : x.disk = device}}

\* partition_device.replace("/dev/", "")
StripDev(path) ==
    LET names == {DiskNames[i] \o ToString(n) :
                    i \in DOMAIN DiskNames, n \in 1..9}
    IN  IF \E x \in names : "/dev/" \o x = path
        THEN CHOOSE x \in names : "/dev/" \o x = path
        ELSE path

\* The by-id symlink of a partition device, as ls -l /dev/disk/by-id lists it.
ByIdLink(device_name) == "ata-" \o device_name

\* Regex "({device}[^ ]*{id})" on the output of fdisk -l <device>: the first
\* listed partition device whose number holds the id (numbers below 10).
Partition_identify(m, d, p, device) ==
    LET m1 == command_output(m, <<"fdisk", "-l", device>>)
        found == {n \in DiskEntries(m1.world, device) :
                    n = Part(m, d, p).config.id}
    IN  IF m1.res # Ok THEN m1
        ELSE IF found = {}
        THEN Fail(m1, generic_error("Cannot identify partition"))
        ELSE LET n == CHOOSE x \in found : \A y \in found : x <= y
                 partition_device == device \o ToString(n)
             IN  [m1 EXCEPT
                    !.fs[d].partitions[p].config.device = partition_device,
                    !.fs[d].partitions[p].config.device_name =
                        StripDev(partition_device)]

\* Regex "([^ ]*) -> .*{device_name}$" on each line of ls -l /dev/disk/by-id.
\* Faulty variant of Partition_identify_id: a partition without a by-id
\* link is left unresolved and no error is returned.
Partition_identify_id_unchecked(m, d, p) ==
    LET m1 == command_output(m, <<"ls", "-l", "/dev/disk/by-id">>)
        device == Part(m1, d, p).config.device_name
    IN  IF m1.res # Ok THEN m1
        ELSE IF device = None THEN Fail(m1, Panic)
        ELSE IF device \in m1.world.unlinked THEN m1
        ELSE [m1 EXCEPT
                !.fs[d].partitions[p].config.device_by_id =
                    "/dev/disk/by-id/" \o ByIdLink(device),
                !.fs[d].partitions[p].config.device_by_partlabel =
                    "/dev/disk/by-partlabel/" \o Part(m1, d, p).config.label]

Partition_identify_id(m, d, p) ==
    LET m1 == command_output(m, <<"ls", "-l", "/dev/disk/by-id">>)
        device == Part(m1, d, p).config.device_name
        links == {ByIdLink(StripDev(e.disk \o ToString(e.n))) :
                    e \in {x \in m1.world.table :
                            /\ StripDev(x.disk \o ToString(x.n)) = device
                            /\ device \notin m1.world.unlinked}}
    IN  IF m1.res # Ok THEN m1
        ELSE IF device = None THEN Fail(m1, Panic)
        ELSE IF links = {}
        THEN Fail(m1, generic_error("Cannot find partition ID"))
        ELSE [m1 EXCEPT
                !.fs[d].partitions[p].config.device_by_id =
                    "/dev/disk/by-id/" \o (CHOOSE id \in links : TRUE),
                !.fs[d].partitions[p].config.device_by_partlabel =
                    "/dev/disk/by-partlabel/" \o Part(m1, d, p).config.label]

\* Faulty variant of Partition_create: the mapper path is recorded whether
\* the partition is encrypted or not.
Partition_create_always_mapper(m, d, p, device) ==
    IF m.res # Ok THEN m
    ELSE LET c == Part(m, d, p).config
             partition_type == PartitionType_from_str(c.partition_type)
         IN  IF partition_type \notin {"Efi", "Linux"}
             THEN Fail(m, partition_type)
             ELSE LET m1 == create_partition(m, device, c.size,
                                             partition_type, c.label)
                      m2 == Partition_identify(m1, d, p, device)
                      m3 == Partition_identify_id(m2, d, p)
                  IN  IF m3.res # Ok THEN m3
                      ELSE [m3 EXCEPT
                              !.fs[d].partitions[p].config.luks_mapper =
                                  "/dev/mapper/" \o c.label]

Partition_create(m, d, p, device) ==
    IF m.res # Ok THEN m
    ELSE LET c == Part(m, d, p).config
             partition_type == PartitionType_from_str(c.partition_type)
         IN  IF partition_type \notin {"Efi", "Linux"}
             THEN Fail(m, partition_type)
             ELSE LET m1 == create_partition(m, device, c.size,
                                             partition_type, c.label)
                      m2 == Partition_identify(m1, d, p, device)
                      m3 == Partition_identify_id(m2, d, p)
                  IN  IF m3.res # Ok \/ ~c.encrypted THEN m3
                      ELSE [m3 EXCEPT
                              !.fs[d].partitions[p].config.luks_mapper =
                                  "/dev/mapper/" \o c.label]

Partition_luks_format(m, d, p, passphrase, key_file) ==
    IF m.res # Ok THEN m
    ELSE IF ~Part(m, d, p).config.encrypted THEN m
    ELSE LET device == Part(m, d, p).config.device_by_id
             m1 == luks_format(Unwrap(m, device), device, passphrase)
             m2 == luks_add_key(m1, device, passphrase, key_file)
             m3 == luks_open(m2, device, passphrase, Part(m, d, p).config.label)
         IN  IF m3.res # Ok THEN m3
             ELSE [m3 EXCEPT !.fs[d].partitions[p].opened = TRUE]

\* The device the partition is formatted on.
Partition_format_device(c) ==
    IF c.encrypted THEN c.luks_mapper ELSE c.device_by_id

Partition_format_fs(m, d, p, device) ==
    IF m.res # Ok THEN m
    ELSE IF Lvm_is_valid(Part(m, d, p).lvm)
         THEN Lvm_format_volumes(
                Lvm_create(m, d, p, device, Part(m, d, p).config.label), d, p)
         ELSE format_partition(m, device, Part(m, d, p).config.fs_type,
                               Part(m, d, p).config.label)

Partition_format_zfs(m, d, p) ==
    IF m.res # Ok \/ ~Filesystems_is_valid(Part(m, d, p).zfs) THEN m
    ELSE Filesystems_create(m, d, p)

Partition_format(m, d, p, key_file, passphrase) ==
    LET m1 == Partition_luks_format(m, d, p, passphrase, key_file)
        device == Partition_format_device(Part(m1, d, p).config)
        m2 == Unwrap(m1, device)
        m3 == Partition_format_fs(m2, d, p, device)
    IN  Partition_format_zfs(m3, d, p)

-----------------------------------------------------------------------------
\* disk.rs

RECURSIVE Disk_create_partitions(_, _, _)
Disk_create_partitions(m, d, p) ==
    IF m.res # Ok \/ p > Len(m.fs[d].partitions) THEN m
    ELSE Disk_create_partitions(
            Partition_create(m, d, p, m.fs[d].config.device), d, p + 1)

RECURSIVE Disk_format_partitions(_, _, _, _, _)
Disk_format_partitions(m, d, p, key_file, passphrase) ==
    IF m.res # Ok \/ p > Len(m.fs[d].partitions) THEN m
    ELSE Disk_format_partitions(
            Partition_format(m, d, p, key_file, passphrase),
            d, p + 1, key_file, passphrase)

\* Faulty variant of Disk_create: each partition is formatted as soon as it is
\* created.
RECURSIVE Disk_create_each(_, _, _, _, _)
Disk_create_each(m, d, p, key_file, passphrase) ==
    IF m.res # Ok \/ p > Len(m.fs[d].partitions) THEN m
    ELSE Disk_create_each(
            Partition_format(Partition_create(m, d, p, m.fs[d].config.device),
                             d, p, key_file, passphrase),
            d, p + 1, key_file, passphrase)

Disk_create_one_pass(m, d, key_file, passphrase) ==
    Disk_create_each(m, d, 1, key_file, passphrase)

Disk_create(m, d, key_file, passphrase) ==
    Disk_format_partitions(Disk_create_partitions(m, d, 1),
                           d, 1, key_file, passphrase)

RECURSIVE Disk_open_from(_, _, _, _)
Disk_open_from(m, d, p, passphrase) ==
    IF m.res # Ok \/ p > Len(m.fs[d].partitions) THEN m
    ELSE Disk_open_from(Partition_open(m, d, p, passphrase), d, p + 1, passphrase)

Disk_open(m, d, passphrase) == Disk_open_from(m, d, 1, passphrase)

RECURSIVE Disk_close_from(_, _, _)
Disk_close_from(m, d, p) ==
    IF m.res # Ok \/ p > Len(m.fs[d].partitions) THEN m
    ELSE Disk_close_from(Partition_close(m, d, p), d, p + 1)

Disk_close(m, d) == Disk_close_from(m, d, 1)

-----------------------------------------------------------------------------
\* filesystem.rs

RECURSIVE Filesystem_create_disks(_, _, _, _)
Filesystem_create_disks(m, d, key_file, passphrase) ==
    IF m.res # Ok \/ d > Len(m.fs) THEN m
    ELSE Filesystem_create_disks(
            IF m.fs[d].config.read_only THEN m
            ELSE Disk_create(gpt_wipeout(m, m.fs[d].config.device),
                             d, key_file, passphrase),
            d + 1, key_file, passphrase)

\* Faulty variant of Filesystem_create: the pools are destroyed after the
\* disks are created.
Filesystem_create_wipeout_last(m, key_file, passphrase) ==
    wipeout(Filesystem_create_disks(m, 1, key_file, passphrase))

Filesystem_create(m, key_file, passphrase) ==
    Filesystem_create_disks(wipeout(m), 1, key_file, passphrase)

RECURSIVE Filesystem_open_disks(_, _, _)
Filesystem_open_disks(m, d, passphrase) ==
    IF m.res # Ok \/ d > Len(m.fs) THEN m
    ELSE Filesystem_open_disks(Disk_open(m, d, passphrase), d + 1, passphrase)

\* Faulty variant of Filesystem_open: the pools are imported before the disks are
\* opened.
Filesystem_open_import_first(m, passphrase) ==
    Filesystem_open_disks(pool_import_all(m), 1, passphrase)

Filesystem_open(m, passphrase) ==
    pool_import_all(Filesystem_open_disks(m, 1, passphrase))

RECURSIVE Filesystem_close_disks(_, _)
Filesystem_close_disks(m, d) ==
    IF m.res # Ok \/ d > Len(m.fs) THEN m
    ELSE Filesystem_close_disks(Disk_close(m, d), d + 1)

\* Faulty variant of Filesystem_close: the pools are exported after the disks are
\* closed.
Filesystem_close_export_last(m) ==
    pool_export_all(Filesystem_close_disks(m, 1))

Filesystem_close(m) == Filesystem_close_disks(pool_export_all(m), 1)

-----------------------------------------------------------------------------
\* Configurable: building the tree from a layout document and back.

Volume_from_config(config) == [config |-> config, mounted |-> FALSE]

Lvm_from_config(lvms, partition_label) ==
    [volumes |-> [i \in DOMAIN lvms |-> Volume_from_config(lvms[i])],
     partition_label |-> partition_label,
     opened |-> FALSE]

Lvm_config(lvm) == [i \in DOMAIN lvm.volumes |-> lvm.volumes[i].config]

ZfsFilesystem_from_config(pool, config) ==
    [config |-> config, pool |-> pool, opened |-> FALSE, mounted |-> FALSE]

Filesystems_from_config(pool, configs) ==
    [filesystems |->
        [i \in DOMAIN configs |-> ZfsFilesystem_from_config(pool, configs[i])]]

Filesystems_config(zfs) ==
    [i \in DOMAIN zfs.filesystems |-> zfs.filesystems[i].config]

Partition_from_config(config) ==
    [config |-> config,
     opened |-> FALSE,
     mounted |-> FALSE,
     lvm |-> Lvm_from_config(config.lvm, config.label),
     zfs |-> Filesystems_from_config(config.label, config.zfs)]

Partition_config(partition) ==
    [partition.config EXCEPT !.lvm = Lvm_config(partition.lvm),
                             !.zfs = Filesystems_config(partition.zfs)]

\* c.partitions.sort_by_key(|k| k.id): a stable sort.
RECURSIVE SortById(_)
SortById(s) ==
    IF s = <<>> THEN <<>>
    ELSE LET rest == SortById(Tail(s))
             before == SelectSeq(rest, LAMBDA x : x.id < Head(s).id)
             after == SelectSeq(rest, LAMBDA x : x.id >= Head(s).id)
         IN  before \o <<Head(s)>> \o after

\* Faulty variant of Disk_from_config: the partitions keep the order of the
\* document.
Disk_from_config_unsorted(config) ==
    [config |-> config,
     partitions |->
        [i \in DOMAIN config.partitions |->
            Partition_from_config(config.partitions[i])]]

Disk_from_config(config) ==
    LET c == [config EXCEPT !.partitions = SortById(@)]
    IN  [config |-> c,
         partitions |->
            [i \in DOMAIN c.partitions |-> Partition_from_config(c.partitions[i])]]

Disk_config(disk) ==
    [disk.config EXCEPT !.partitions =
        [i \in DOMAIN disk.partitions |-> Partition_config(disk.partitions[i])]]

Filesystem_from_config(config) ==
    [i \in DOMAIN config.disks |-> Disk_from_config(config.disks[i])]

Filesystem_to_config(f) == [disks |-> [i \in DOMAIN f |-> Disk_config(f[i])]]

-----------------------------------------------------------------------------
\* Layout documents the handlers are run on.

Passphrase == "passphrase"

KeyFile == "/root/keyfile"

MountPoint == "/mnt/root"

Size(value, unit) == [value |-> value, unit |-> unit]

VolumeConfig(id, size, fs_type) ==
    [id |-> id, size |-> size, volume_type |-> "linux", encrypted |-> FALSE,
     fs_type |-> fs_type, label |-> "lv" \o ToString(id), is_root |-> FALSE,
     device |-> None]

ZfsConfig(i) ==
    [name |-> "fs" \o ToString(i), mountpoint |-> "/fs" \o ToString(i),
     is_root |-> FALSE]

PartitionConfig(id, label, encrypted, fs_type, lvm, zfs) ==
    [id |-> id, size |-> Size(0, "Byte"), partition_type |-> "linux",
     encrypted |-> encrypted, fs_type |-> fs_type, label |-> label,
     is_system |-> FALSE, is_root |-> FALSE, lvm |-> lvm, zfs |-> zfs,
     device |-> None, device_name |-> None, device_by_id |-> None,
     device_by_partlabel |-> None, luks_mapper |-> None]

DiskConfig(device, read_only, partitions) ==
    [device |-> device, read_only |-> read_only, contains_system |-> FALSE,
     partitions |-> partitions]

\* Volume lists of up to MaxVolumes volumes: each a swap volume of a fixed
\* size or an ext4 volume taking all the free space.
VolumeKinds ==
    {[size |-> Size(10, "Giga"), fs_type |-> "swap"],
     [size |-> Size(0, "Byte"), fs_type |-> "ext4"]}

VolumePlans ==
    UNION {[1..n -> VolumeKinds] : n \in 0..MaxVolumes}

VolumeConfigs(plan) ==
    [i \in DOMAIN plan |-> VolumeConfig(i, plan[i].size, plan[i].fs_type)]

ZfsConfigs(n) == [i \in 1..n |-> ZfsConfig(i)]

\* One disk with one partition.
NodeLayout(encrypted, fs_type, lvm, nzfs) ==
    [disks |-> <<DiskConfig("/dev/sda", FALSE,
        <<PartitionConfig(1, "root", encrypted, fs_type,
                          VolumeConfigs(lvm), ZfsConfigs(nzfs))>>)>>]

\* Every combination of encryption, filesystem type, volumes and pooled
\* filesystems.
FormatLayouts ==
    {NodeLayout(enc, t, plan, nz) :
        enc \in BOOLEAN, t \in {"ext4", "zfs", "lvm"},
        plan \in VolumePlans, nz \in 0..MaxZfs}

\* n volumes: swap volumes of a fixed size, the last one an ext4 volume
\* taking the free space.
DefaultPlan(n) ==
    [i \in 1..n |->
        IF i < n THEN [size |-> Size(10, "Giga"), fs_type |-> "swap"]
        ELSE [size |-> Size(0, "Byte"), fs_type |-> "ext4"]]

\* Every combination of encryption, number of volumes and number of pooled
\* filesystems, with the filesystem type that goes with them.
ShapeLayouts ==
    {NodeLayout(enc,
                IF n > 0 THEN "lvm" ELSE IF nz > 0 THEN "zfs" ELSE "ext4",
                DefaultPlan(n), nz) :
        enc \in BOOLEAN, n \in 0..MaxVolumes, nz \in 0..MaxZfs}

\* Partition shapes of the multi-disk layouts.
Profiles ==
    <<[encrypted |-> FALSE, fs_type |-> "ext4", lvm |-> <<>>, nzfs |-> 0],
      [encrypted |-> TRUE, fs_type |-> "lvm",
       lvm |-> <<[size |-> Size(10, "Giga"), fs_type |-> "swap"],
                 [size |-> Size(0, "Byte"), fs_type |-> "ext4"]>>,
       nzfs |-> 0],
      [encrypted |-> FALSE, fs_type |-> "zfs", lvm |-> <<>>, nzfs |-> 1],
      [encrypted |-> TRUE, fs_type |-> "ext4", lvm |-> <<>>, nzfs |-> 0]>>

ProfilePartition(d, p, profile) ==
    PartitionConfig(p, "d" \o ToString(d) \o "p" \o ToString(p),
                    profile.encrypted, profile.fs_type,
                    VolumeConfigs(profile.lvm), ZfsConfigs(profile.nzfs))

\* nd disks of np partitions each; the partitions take the shapes of
\* Profiles in turn, starting at offset off; disk ro (if any) is read-only.
Layout(nd, np, off, ro) ==
    [disks |->
        [d \in 1..nd |->
            DiskConfig("/dev/" \o DiskNames[d], d = ro,
                [p \in 1..np |->
                    ProfilePartition(d, p,
                        Profiles[((off + (d - 1) * np + (p - 1)) % Len(Profiles)) + 1])])]]

\* The last disk, or no disk, is read-only.
Layouts ==
    UNION {{Layout(nd, np, 1, ro) : np \in 1..MaxParts, ro \in {0, nd}} :
            nd \in 1..MaxDisks}

\* The tree a process builds from the document written after a successful
\* creation of `layout` (partitioning.rs: create, close, to_json; then
\* Filesystem::from_json in a later process).
Created(layout) ==
    Filesystem_create(Ctx(Filesystem_from_config(layout), EmptyWorld, 0),
                      KeyFile, Passphrase)

Reloaded(layout) ==
    Filesystem_from_config(Filesystem_to_config(Created(layout).fs))

NoOp ==
    [op |-> "none", d |-> 0, p |-> 0, v |-> 0, log |-> <<>>, res |-> Ok,
     fail |-> 0]

-----------------------------------------------------------------------------
\* Actions: one per handler.  The handler runs to its end; fail ranges over
\* the commands the handler issues when none fails, and 0.

Alive == last.res # Panic

Commit(op, d, p, v, m) ==
    /\ fs' = m.fs
    /\ world' = m.world
    /\ last' = [op |-> op, d |-> d, p |-> p, v |-> v, log |-> m.log, res |-> m.res,
                fail |-> m.fail]

PartitionOpen ==
    /\ Alive
    /\ \E d \in DOMAIN fs : \E p \in DOMAIN fs[d].partitions :
       \E k \in 0..Len(Partition_open(Ctx(fs, world, 0), d, p, Passphrase).log) :
        Commit("Partition::open", d, p, 0,
               Partition_open(Ctx(fs, world, k), d, p, Passphrase))

PartitionClose ==
    /\ Alive
    /\ \E d \in DOMAIN fs : \E p \in DOMAIN fs[d].partitions :
       \E k \in 0..Len(Partition_close(Ctx(fs, world, 0), d, p).log) :
        Commit("Partition::close", d, p, 0,
               Partition_close(Ctx(fs, world, k), d, p))

LvmOpen ==
    /\ Alive
    /\ \E d \in DOMAIN fs : \E p \in DOMAIN fs[d].partitions :
       \E k \in 0..Len(Lvm_open(Ctx(fs, world, 0), d, p).log) :
        Commit("Lvm::open", d, p, 0, Lvm_open(Ctx(fs, world, k), d, p))

LvmClose ==
    /\ Alive
    /\ \E d \in DOMAIN fs : \E p \in DOMAIN fs[d].partitions :
       \E k \in 0..Len(Lvm_close(Ctx(fs, world, 0), d, p).log) :
        Commit("Lvm::close", d, p, 0, Lvm_close(Ctx(fs, world, k), d, p))

\* A layout created by an earlier process and loaded again: the resolved
\* fields are set, the opened and mounted flags are not.
InitCreated(layouts) ==
    \E layout \in layouts :
        /\ Created(layout).res = Ok
        /\ fs = Reloaded(layout)
        /\ world = Filesystem_close(
                     Ctx(Created(layout).fs, Created(layout).world, 0)).world
        /\ last = NoOp

\* Open/close of one partition and of its volume group.  The namespace may
\* still hold the mapper or the active volume group of an earlier run.
InitOpen ==
    \E layout \in ShapeLayouts :
        /\ Created(layout).res = Ok
        /\ fs = Reloaded(layout)
        /\ \E mapper \in SUBSET {"root"}, vgs \in SUBSET {"vg-root"} :
            world = [Created(layout).world EXCEPT !.mapper = mapper, !.vgs = vgs]
        /\ last = NoOp

NextOpen == PartitionOpen \/ PartitionClose \/ LvmOpen \/ LvmClose

SpecOpen == InitOpen /\ [][NextOpen]_vars

PartitionMount ==
    /\ Alive
    /\ \E d \in DOMAIN fs : \E p \in DOMAIN fs[d].partitions :
       \E k \in 0..Len(Partition_mount(Ctx(fs, world, 0), d, p, MountPoint).log) :
        Commit("Partition::mount", d, p, 0,
               Partition_mount(Ctx(fs, world, k), d, p, MountPoint))

PartitionUnmount ==
    /\ Alive
    /\ \E d \in DOMAIN fs : \E p \in DOMAIN fs[d].partitions :
       \E k \in 0..Len(Partition_unmount(Ctx(fs, world, 0), d, p).log) :
        Commit("Partition::unmount", d, p, 0,
               Partition_unmount(Ctx(fs, world, k), d, p))

VolumeMount ==
    /\ Alive
    /\ \E d \in DOMAIN fs : \E p \in DOMAIN fs[d].partitions :
       \E v \in DOMAIN fs[d].partitions[p].lvm.volumes :
       \E k \in 0..Len(Volume_mount(Ctx(fs, world, 0), d, p, v, MountPoint).log) :
        Commit("Volume::mount", d, p, v,
               Volume_mount(Ctx(fs, world, k), d, p, v, MountPoint))

VolumeUnmount ==
    /\ Alive
    /\ \E d \in DOMAIN fs : \E p \in DOMAIN fs[d].partitions :
       \E v \in DOMAIN fs[d].partitions[p].lvm.volumes :
       \E k \in 0..Len(Volume_unmount(Ctx(fs, world, 0), d, p, v).log) :
        Commit("Volume::unmount", d, p, v,
               Volume_unmount(Ctx(fs, world, k), d, p, v))

FilesystemMount ==
    /\ Alive
    /\ \E d \in DOMAIN fs : \E p \in DOMAIN fs[d].partitions :
       \E z \in DOMAIN fs[d].partitions[p].zfs.filesystems :
       \E k \in 0..Len(Filesystem_mount(Ctx(fs, world, 0), d, p, z, MountPoint).log) :
        Commit("zfs::Filesystem::mount", d, p, z,
               Filesystem_mount(Ctx(fs, world, k), d, p, z, MountPoint))

FilesystemUnmount ==
    /\ Alive
    /\ \E d \in DOMAIN fs : \E p \in DOMAIN fs[d].partitions :
       \E z \in DOMAIN fs[d].partitions[p].zfs.filesystems :
       \E k \in 0..Len(Filesystem_unmount(Ctx(fs, world, 0), d, p, z).log) :
        Commit("zfs::Filesystem::unmount", d, p, z,
               Filesystem_unmount(Ctx(fs, world, k), d, p, z))

\* Mount/unmount of the nodes of one partition of a created layout.
InitMount == InitCreated(ShapeLayouts)

NextMount ==
    \/ PartitionMount
    \/ PartitionUnmount
    \/ VolumeMount
    \/ VolumeUnmount
    \/ FilesystemMount
    \/ FilesystemUnmount

SpecMount == InitMount /\ [][NextMount]_vars

\* The commands of main.rs (partitioning, install, secrets) return the first
\* error of a whole-layout handler to the caller and the process ends.
Running == last.res = Ok

\* partitioning.rs: the tree is built from the layout document and created
\* once, before any other handler runs on it.
FilesystemCreate ==
    /\ last = NoOp
    /\ \E k \in 0..Len(Filesystem_create(Ctx(fs, world, 0), KeyFile, Passphrase).log) :
        Commit("Filesystem::create", 0, 0, 0,
               Filesystem_create(Ctx(fs, world, k), KeyFile, Passphrase))

FilesystemOpen ==
    /\ Running
    /\ \E k \in 0..Len(Filesystem_open(Ctx(fs, world, 0), Passphrase).log) :
        Commit("Filesystem::open", 0, 0, 0,
               Filesystem_open(Ctx(fs, world, k), Passphrase))

FilesystemClose ==
    /\ Running
    /\ \E k \in 0..Len(Filesystem_close(Ctx(fs, world, 0)).log) :
        Commit("Filesystem::close", 0, 0, 0,
               Filesystem_close(Ctx(fs, world, k)))

\* Disk::create runs on a disk whose table was just wiped (filesystem.rs,
\* Filesystem::create).
DiskCreate ==
    /\ Running
    /\ \E d \in DOMAIN fs :
       /\ DiskEntries(world, fs[d].config.device) = {}
       /\ \E k \in 0..Len(Disk_create(Ctx(fs, world, 0), d, KeyFile, Passphrase).log) :
        Commit("Disk::create", d, 0, 0,
               Disk_create(Ctx(fs, world, k), d, KeyFile, Passphrase))

\* A namespace left by an earlier installation: an imported pool and the
\* mapper of the first partition.
StaleWorld == [EmptyWorld EXCEPT !.pools = <<"tank">>, !.mapper = {"d1p1"}]

\* A layout document just loaded: either never created (resolved fields
\* empty, namespace empty or stale) or created and closed by an earlier
\* process.
\* The namespace of a machine whose read-only disks are in use: the pools
\* of their partitions are imported.
LiveWorld(layout) ==
    [EmptyWorld EXCEPT !.pools =
        SelectSeq(
            [i \in 1..(MaxDisks * MaxParts) |->
                "d" \o ToString(((i - 1) \div MaxParts) + 1)
                    \o "p" \o ToString(((i - 1) % MaxParts) + 1)],
            LAMBDA name :
                \E d \in DOMAIN layout.disks :
                \E p \in DOMAIN layout.disks[d].partitions :
                    /\ layout.disks[d].read_only
                    /\ layout.disks[d].partitions[p].fs_type = "zfs"
                    /\ layout.disks[d].partitions[p].label = name)]

Init ==
    \E layout \in Layouts :
        /\ last = NoOp
        /\ \/ /\ fs = Filesystem_from_config(layout)
              /\ world \in {EmptyWorld, StaleWorld, LiveWorld(layout)}
           \/ /\ Created(layout).res = Ok
              /\ fs = Reloaded(layout)
              /\ world = Filesystem_close(
                           Ctx(Created(layout).fs, Created(layout).world, 0)).world

Next == FilesystemCreate \/ FilesystemOpen \/ FilesystemClose \/ DiskCreate

Spec == Init /\ [][Next]_vars

PartitionCreate ==
    /\ Running
    /\ \E d \in DOMAIN fs : \E p \in DOMAIN fs[d].partitions :
       /\ DiskEntries(world, fs[d].config.device) = {}
       /\ \E k \in 0..Len(Partition_create(Ctx(fs, world, 0), d, p,
                                            fs[d].config.device).log) :
            Commit("Partition::create", d, p, 0,
                   Partition_create(Ctx(fs, world, k), d, p, fs[d].config.device))

\* Disk::create formats a partition once its creation has succeeded.
PartitionFormat ==
    /\ Running
    /\ last.op = "Partition::create"
    /\ \E k \in 0..Len(Partition_format(Ctx(fs, world, 0), last.d, last.p,
                                        KeyFile, Passphrase).log) :
        Commit("Partition::format", last.d, last.p, 0,
               Partition_format(Ctx(fs, world, k), last.d, last.p,
                                KeyFile, Passphrase))

\* Creation and formatting of one partition of a layout never created.  The
\* namespace may hold the mapper or the pool of an earlier installation
\* that used the same label.
InitFormat ==
    \E layout \in FormatLayouts :
        /\ fs = Filesystem_from_config(layout)
        /\ \E mapper \in SUBSET {"root"}, pools \in {<<>>, <<"root">>} :
            world = [EmptyWorld EXCEPT !.mapper = mapper, !.pools = pools]
        /\ last = NoOp

NextFormat == PartitionCreate \/ PartitionFormat

SpecFormat == InitFormat /\ [][NextFormat]_vars

\* Pool names and the device handed to pool_create.
PoolNames == [i \in 1..MaxPools |-> "pool" \o ToString(i)]

PoolDevice == "/dev/disk/by-id/ata-sdb1"

PoolCreate ==
    /\ Alive
    /\ \E i \in DOMAIN PoolNames :
       \E k \in 0..Len(pool_create(Ctx(fs, world, 0), PoolNames[i], PoolDevice).log) :
        Commit("pool_create", i, 0, 0,
               pool_create(Ctx(fs, world, k), PoolNames[i], PoolDevice))

PoolImportAll ==
    /\ Alive
    /\ \E k \in 0..Len(pool_import_all(Ctx(fs, world, 0)).log) :
        Commit("pool_import_all", 0, 0, 0, pool_import_all(Ctx(fs, world, k)))

PoolExportAll ==
    /\ Alive
    /\ \E k \in 0..Len(pool_export_all(Ctx(fs, world, 0)).log) :
        Commit("pool_export_all", 0, 0, 0, pool_export_all(Ctx(fs, world, k)))

PoolWipeout ==
    /\ Alive
    /\ \E k \in 0..Len(wipeout(Ctx(fs, world, 0)).log) :
        Commit("wipeout", 0, 0, 0, wipeout(Ctx(fs, world, k)))

\* The pool functions of zfs.rs on a namespace without pools.
InitPool == fs = <<>> /\ world = EmptyWorld /\ last = NoOp

NextPool == PoolCreate \/ PoolImportAll \/ PoolExportAll \/ PoolWipeout

SpecPool == InitPool /\ [][NextPool]_vars

-----------------------------------------------------------------------------
\* Commands, as the claims name them.

IsLuksStatus(c) == c[1] = "cryptsetup" /\ c[2] = "status"

IsLuksFormat(c) == c[1] = "cryptsetup" /\ c[2] = "luksFormat"

IsLuksAddKey(c) == c[1] = "cryptsetup" /\ c[2] = "luksAddKey"

IsLuksOpen(c) == c[1] = "cryptsetup" /\ c[2] = "luksOpen"

IsLuksClose(c) == c[1] = "cryptsetup" /\ c[2] = "luksClose"

IsVgActivate(c) == c[1] = "vgchange" /\ c[3] = "y"

IsVgDeactivate(c) == c[1] = "vgchange" /\ c[3] = "n"

LastPart == fs[last.d].partitions[last.p]

Unchanged == fs' = fs /\ world' = world

Quiet == last'.log = <<>> /\ last'.res = Ok /\ Unchanged

-----------------------------------------------------------------------------
\* C1: for a partition that is encrypted and carries a volume group, every
\* run of Partition::open issues luksOpen strictly before vgchange -a y (the
\* activation comes after the encryption step, which starts with the status
\* query of the mapper), and every run of Partition::close issues
\* vgchange -a n strictly before luksClose.
C1_OpenCloseOrder ==
    (/\ last.op \in {"Partition::open", "Partition::close"}
     /\ LastPart.config.encrypted
     /\ Lvm_is_valid(LastPart.lvm))
    => \A i \in DOMAIN last.log, j \in DOMAIN last.log :
        /\ (IsLuksOpen(last.log[i]) /\ IsVgActivate(last.log[j])) => i < j
        /\ (IsVgDeactivate(last.log[i]) /\ IsLuksClose(last.log[j])) => i < j
        /\ IsVgActivate(last.log[j]) => IsLuksStatus(last.log[1])

\* A close that deactivated the volume group and then closed the mapper
\* (after an open that opened both).
C1_Witness ==
    /\ last.op = "Partition::close"
    /\ last.res = Ok
    /\ last.log = <<<<"vgchange", "-a", "n", "vg-root">>,
                    <<"cryptsetup", "luksClose", "/dev/mapper/root">>>>

OpenCloseOps == {"Partition::open", "Partition::close", "Lvm::open", "Lvm::close"}

SameCallAgain ==
    /\ last.op \in OpenCloseOps
    /\ last'.op = last.op
    /\ last'.d = last.d
    /\ last'.p = last.p

\* C2 as stated: an open (close) that follows an open (close) of the same
\* partition or volume group issues no command and changes nothing.
C2_SecondCallQuiet == [][SameCallAgain => Quiet]_vars

\* C2, amended: an open (close) that follows a successful open (close) of the
\* same partition or volume group issues no command, succeeds and leaves the
\* tree and the namespace as the first call left them.
C2_SecondCallQuietAfterSuccess ==
    [][(SameCallAgain /\ last.res = Ok) => Quiet]_vars

\* An open of an encrypted partition with a volume group that issued nothing:
\* the partition was opened by an earlier call.
C2_Witness ==
    /\ last.op = "Partition::open"
    /\ last.res = Ok
    /\ last.log = <<>>
    /\ LastPart.opened
    /\ LastPart.config.encrypted
    /\ LastPart.lvm.opened

-----------------------------------------------------------------------------
\* The mounted flag of the node the handler recorded in `l` ran on, in tree f.
MountedFlag(f, l) ==
    CASE l.op \in {"Partition::mount", "Partition::unmount"} ->
            f[l.d].partitions[l.p].mounted
      [] l.op \in {"Volume::mount", "Volume::unmount"} ->
            f[l.d].partitions[l.p].lvm.volumes[l.v].mounted
      [] l.op \in {"zfs::Filesystem::mount", "zfs::Filesystem::unmount"} ->
            f[l.d].partitions[l.p].zfs.filesystems[l.v].mounted

MountOps == {"Partition::mount", "Volume::mount", "zfs::Filesystem::mount"}

UnmountOps == {"Partition::unmount", "Volume::unmount", "zfs::Filesystem::unmount"}

\* C3: for a partition, a logical volume and a pooled filesystem alike, mount
\* of a node whose mounted flag is set, and unmount of a node whose mounted
\* flag is not set, succeed, issue no command and leave the flag (and the
\* rest of the tree and the namespace) as it was.
C3_MountedNoOp ==
    [][/\ (last'.op \in MountOps /\ MountedFlag(fs, last')) => Quiet
       /\ (last'.op \in UnmountOps /\ ~MountedFlag(fs, last')) => Quiet]_vars

\* A mount of a mounted logical volume that issued nothing.
C3_Witness ==
    /\ last.op = "Volume::mount"
    /\ last.res = Ok
    /\ last.log = <<>>
    /\ MountedFlag(fs, last)
    /\ last.v = 1
    /\ "/dev/vg-root/lv1" \in world.mounted

-----------------------------------------------------------------------------
\* The partitions of the tree, as (disk, partition) positions, and their
\* list order.
Nodes ==
    {x \in (DOMAIN fs) \X (1..MaxParts) : x[2] \in DOMAIN fs[x[1]].partitions}

Before(x, y) == x[1] < y[1] \/ (x[1] = y[1] /\ x[2] <= y[2])

\* The command is an open or close step of the partition.
ActsOn(c, part) ==
    \/ c[1] = "vgchange" /\ c[4] = "vg-" \o part.config.label
    \/ /\ c[1] = "cryptsetup"
       /\ c[2] \in {"luksClose", "status"}
       /\ c[3] = "/dev/mapper/" \o part.config.label
    \/ IsLuksOpen(c) /\ c[4] = part.config.label

IsPartitionStep(c) == \E x \in Nodes : ActsOn(c, fs[x[1]].partitions[x[2]])

StepNode(c) == CHOOSE x \in Nodes : ActsOn(c, fs[x[1]].partitions[x[2]])

IsPoolExport(c) == c = <<"zpool", "export", "-a">>

IsPoolImport(c) == c = <<"zpool", "import", "-a">>

\* C4: every run of Filesystem::close issues the export of all pools first
\* and only once, before any volume-group deactivation or encryption close
\* of any disk; the close steps that follow go through the disks and their
\* partitions in list order, and after a successful run no partition is
\* left opened.
C4_ExportBeforeClose ==
    last.op = "Filesystem::close" =>
        /\ last.log # <<>>
        /\ \A i \in DOMAIN last.log : IsPoolExport(last.log[i]) <=> i = 1
        /\ \A i \in 2..Len(last.log) :
            /\ IsVgDeactivate(last.log[i]) \/ IsLuksClose(last.log[i])
            /\ IsPartitionStep(last.log[i])
        /\ \A i \in 2..Len(last.log), j \in 2..Len(last.log) :
            i < j => Before(StepNode(last.log[i]), StepNode(last.log[j]))
        /\ last.res = Ok => \A x \in Nodes : ~fs[x[1]].partitions[x[2]].opened

\* A close that exported the pools and then closed the mappers of two disks,
\* the first disk first.
C4_Witness ==
    /\ last.op = "Filesystem::close"
    /\ last.res = Ok
    /\ \E i \in DOMAIN last.log, j \in DOMAIN last.log :
        /\ i < j
        /\ IsLuksClose(last.log[i])
        /\ IsLuksClose(last.log[j])
        /\ StepNode(last.log[i])[1] < StepNode(last.log[j])[1]

\* C5: every run of Filesystem::open issues the open steps of the
\* partitions in list order (a partition's volume group right after its
\* encryption), and issues the import of all pools last, once every
\* partition of every disk is opened; a successful run ends with the import.
C5_ImportAfterOpen ==
    last.op = "Filesystem::open" =>
        /\ \A i \in DOMAIN last.log :
            IF IsPoolImport(last.log[i])
            THEN /\ i = Len(last.log)
                 /\ \A x \in Nodes : fs[x[1]].partitions[x[2]].opened
            ELSE IsPartitionStep(last.log[i])
        /\ \A i \in DOMAIN last.log, j \in DOMAIN last.log :
            (i < j /\ ~IsPoolImport(last.log[j]))
                => Before(StepNode(last.log[i]), StepNode(last.log[j]))
        /\ last.res = Ok => last.log # <<>> /\ IsPoolImport(last.log[Len(last.log)])

\* An open that opened the mappers of two disks, the first disk first, and
\* then imported the pools.
C5_Witness ==
    /\ last.op = "Filesystem::open"
    /\ last.res = Ok
    /\ \E i \in DOMAIN last.log, j \in DOMAIN last.log :
        /\ i < j
        /\ IsLuksOpen(last.log[i])
        /\ IsLuksOpen(last.log[j])
        /\ StepNode(last.log[i])[1] < StepNode(last.log[j])[1]
    /\ IsPoolImport(last.log[Len(last.log)])

IsTableStep(c) == c[1] = "sgdisk" /\ c[2] = "-n"

IsResolveStep(c) == c[1] \in {"fdisk", "ls"}

IsFormatStep(c) ==
    c[1] \in {"cryptsetup", "pvcreate", "vgcreate", "lvcreate", "mkfs.ext4",
              "mkfs.fat", "mkswap", "zpool", "zfs"}

\* C6: in every run of Disk::create, no encryption, physical-volume,
\* volume-group, filesystem or pool step is issued before the last table
\* entry creation and the last device lookup of the disk; when the first
\* such step is issued, one table entry per partition of the disk has been
\* created and every partition of the disk has its device, by-id and
\* by-partlabel paths recorded.
C6_CreateBeforeFormat ==
    last.op = "Disk::create" =>
        /\ \A i \in DOMAIN last.log, j \in DOMAIN last.log :
            (/\ IsFormatStep(last.log[i])
             /\ IsTableStep(last.log[j]) \/ IsResolveStep(last.log[j]))
                => j < i
        /\ (\E i \in DOMAIN last.log : IsFormatStep(last.log[i])) =>
            /\ Cardinality({j \in DOMAIN last.log : IsTableStep(last.log[j])})
                    = Len(fs[last.d].partitions)
            /\ \A p \in DOMAIN fs[last.d].partitions :
                /\ fs[last.d].partitions[p].config.device # None
                /\ fs[last.d].partitions[p].config.device_by_id # None
                /\ fs[last.d].partitions[p].config.device_by_partlabel # None

\* A creation of a disk of two partitions or more that formatted an
\* encrypted partition and created a pool.
C6_Witness ==
    /\ last.op = "Disk::create"
    /\ last.res = Ok
    /\ Len(fs[last.d].partitions) >= 2
    /\ \E i \in DOMAIN last.log : IsLuksFormat(last.log[i])
    /\ \E i \in DOMAIN last.log :
        last.log[i][1] = "zpool" /\ last.log[i][2] = "create"

-----------------------------------------------------------------------------
\* The device a creation command runs on is its last argument.
Target(c) == c[Len(c)]

IsCreation(c) ==
    \/ c[1] \in {"mkfs.ext4", "mkfs.fat", "mkswap", "pvcreate", "vgcreate"}
    \/ c[1] = "zpool" /\ c[2] \in {"create", "add"}

VolumeDevices(part) ==
    {"/dev/vg-" \o part.config.label \o "/" \o part.lvm.volumes[v].config.label :
        v \in DOMAIN part.lvm.volumes}

\* A filesystem, physical-volume, volume-group or pool creation on the
\* partition itself (not on one of its logical volumes).
IsPartitionCreation(c, part) ==
    IsCreation(c) /\ Target(c) \notin VolumeDevices(part)

LuksFormatOn(device) ==
    <<"cryptsetup", "luksFormat", "-c", "aes-xts-plain64", "-s", "256",
      "-h", "sha512", "--type", "luks1", "-q", device, "-">>

\* The first n commands of the log hold, in this order, the encryption
\* format, the add-key and the open of the device under the name.
EncryptedWithin(log, n, device, name) ==
    \E a \in 1..n, b \in 1..n, c \in 1..n :
        /\ a < b
        /\ b < c
        /\ log[a] = LuksFormatOn(device)
        /\ log[b] = <<"cryptsetup", "luksAddKey", device, KeyFile, "-">>
        /\ log[c] = <<"cryptsetup", "luksOpen", device, name, "-">>

\* C7 as stated: every run of Partition::format on an encrypted partition
\* issues luksFormat, luksAddKey and luksOpen (mapped name = label), in this
\* order, on the by-id device before any creation on the partition, and
\* every such creation targets /dev/mapper/<label>; a run on an unencrypted
\* partition issues no encryption command and its creations target the
\* by-id device.
C7_EncryptThenFormatMapper ==
    last.op = "Partition::format" =>
        LET part == LastPart
            by_id == part.config.device_by_id
            steps == {i \in DOMAIN last.log :
                        IsPartitionCreation(last.log[i], part)}
        IN  IF part.config.encrypted
            THEN /\ \A i \in steps :
                    /\ Target(last.log[i]) = "/dev/mapper/" \o part.config.label
                    /\ EncryptedWithin(last.log, i - 1, by_id, part.config.label)
                 /\ last.res = Ok =>
                    EncryptedWithin(last.log, Len(last.log), by_id,
                                    part.config.label)
            ELSE /\ \A i \in DOMAIN last.log : last.log[i][1] # "cryptsetup"
                 /\ \A i \in steps : Target(last.log[i]) = by_id

IsZfsCreate(c) == c[1] = "zfs" /\ c[2] = "create"

\* C8 as stated: in every run of Partition::format on a partition that
\* declares pooled filesystems, each zfs create is preceded by the creation
\* (zpool create) or extension (zpool add) of the pool named after the
\* label on the format target, names a filesystem of that pool and sets the
\* legacy mountpoint; a successful run creates every declared filesystem.
C8_PoolBeforeFilesystems ==
    (last.op = "Partition::format" /\ Filesystems_is_valid(LastPart.zfs)) =>
        LET part == LastPart
            label == part.config.label
            target == Partition_format_device(part.config)
            created == {i \in DOMAIN last.log : IsZfsCreate(last.log[i])}
        IN  /\ \A i \in created :
                /\ \E j \in 1..(i - 1) :
                    \/ last.log[j] = <<"zpool", "add", "-f", label, target>>
                    \/ last.log[j] =
                        <<"zpool", "create", "-o", "ashift=12", "-O",
                          "compression=lz4", "-m", "none", label, target>>
                /\ \E z \in DOMAIN part.zfs.filesystems :
                    last.log[i] =
                        <<"zfs", "create",
                          label \o "/" \o part.zfs.filesystems[z].config.name,
                          "-o", "mountpoint=legacy">>
            /\ last.res = Ok =>
                Cardinality(created) = Len(part.zfs.filesystems)

\* The commands of the log that are not encryption commands.
Creations(log) == SelectSeq(log, LAMBDA c : c[1] # "cryptsetup")

LvCreate(c, vg) ==
    <<"lvcreate",
      IF c.size.value = 0 THEN "-l" ELSE "-L",
      IF c.size.value = 0 THEN "100%FREE"
      ELSE ToString(c.size.value) \o SizeUnit_to_string(c.size.unit),
      "-n", c.label, vg>>

Mkfs(fs_type, device, label) ==
    CASE fs_type = "ext4" -> <<"mkfs.ext4", "-L", label, device>>
      [] fs_type = "swap" -> <<"mkswap", "-L", label, device>>

\* C9: in every run of Partition::format on a partition that declares
\* logical volumes, the commands that follow the encryption steps are, in
\* this order: pvcreate on the format target, vgcreate vg-<label> on the
\* same target, one lvcreate per volume in list order (-L <size> for a
\* fixed size, -l 100%FREE for a size of zero), then the formatting of each
\* volume in list order on /dev/vg-<label>/<volume label> by the volume's
\* own filesystem type; a run that fails stops inside this sequence, and a
\* volume whose lvcreate succeeded has that device recorded.
C9_VolumeGroupSequence ==
    (last.op = "Partition::format" /\ Lvm_is_valid(LastPart.lvm)) =>
        LET part == LastPart
            n == Len(part.lvm.volumes)
            vg == "vg-" \o part.config.label
            target == Partition_format_device(part.config)
            log == Creations(last.log)
            Device(v) == "/dev/" \o vg \o "/" \o part.lvm.volumes[v].config.label
            expected ==
                <<<<"pvcreate", "-y", "-ff", target>>,
                  <<"vgcreate", vg, target>>>>
                \o [v \in 1..n |-> LvCreate(part.lvm.volumes[v].config, vg)]
                \o [v \in 1..n |->
                        Mkfs(part.lvm.volumes[v].config.fs_type, Device(v),
                             part.lvm.volumes[v].config.label)]
            done == IF last.res = Ok THEN Len(log) ELSE Len(log) - 1
        IN  /\ \A i \in DOMAIN log :
                i <= Len(expected) => log[i] = expected[i]
            /\ last.res = Ok => Len(log) >= Len(expected)
            /\ \A v \in 1..n :
                part.lvm.volumes[v].config.device =
                    IF done >= 2 + v THEN Device(v) ELSE None

\* A format of an encrypted partition with two volumes, a swap volume of a
\* fixed size and an ext4 volume taking the free space, in a partition
\* whose own filesystem type is zfs.
C9_Witness ==
    /\ last.op = "Partition::format"
    /\ last.res = Ok
    /\ LastPart.config.encrypted
    /\ LastPart.config.fs_type = "zfs"
    /\ Creations(last.log) =
        <<<<"pvcreate", "-y", "-ff", "/dev/mapper/root">>,
          <<"vgcreate", "vg-root", "/dev/mapper/root">>,
          <<"lvcreate", "-L", "10G", "-n", "lv1", "vg-root">>,
          <<"lvcreate", "-l", "100%FREE", "-n", "lv2", "vg-root">>,
          <<"mkswap", "-L", "lv1", "/dev/vg-root/lv1">>,
          <<"mkfs.ext4", "-L", "lv2", "/dev/vg-root/lv2">>>>

-----------------------------------------------------------------------------
IsPoolCreate(c) == c[1] = "zpool" /\ c[2] = "create"

IsPoolAdd(c) == c[1] = "zpool" /\ c[2] = "add"

\* C10: in every run of pool_create(name, device), the pools visible after
\* the import-all step being the imported and the importable pools of the
\* namespace the run starts in: a zpool create is issued only for a name
\* that is not visible and a zpool add only for a name that is, both for
\* that name and device; a successful run has issued exactly one of the
\* two, the create when the name was not visible and the add when it was.
C10_PoolDecision ==
    [][last'.op = "pool_create" =>
        LET name == PoolNames[last'.d]
            visible == Range(world.pools) \cup Range(world.exported)
            creates == {i \in DOMAIN last'.log : IsPoolCreate(last'.log[i])}
            adds == {i \in DOMAIN last'.log : IsPoolAdd(last'.log[i])}
        IN  /\ \A i \in creates :
                /\ name \notin visible
                /\ last'.log[i][9] = name
                /\ last'.log[i][10] = PoolDevice
            /\ \A i \in adds :
                /\ name \in visible
                /\ last'.log[i] = <<"zpool", "add", "-f", name, PoolDevice>>
            /\ last'.res = Ok =>
                IF name \in visible
                THEN Cardinality(adds) = 1 /\ creates = {}
                ELSE Cardinality(creates) = 1 /\ adds = {}]_vars

\* A pool_create that added the device to the second pool, which an earlier
\* pool_create had created.
C10_Witness ==
    /\ last.op = "pool_create"
    /\ last.res = Ok
    /\ last.d = 2
    /\ \E i \in DOMAIN last.log : IsPoolAdd(last.log[i])
    /\ "pool2" \in Range(world.pools)

-----------------------------------------------------------------------------
\* Validation of a layout document (Validate for the three Config types).

\* Faulty variant of Partition_Config_is_valid: the label is not checked.
Partition_Config_is_valid_no_label(config) ==
    /\ config.id # 0
    /\ PartitionType_from_str(config.partition_type) \in {"Efi", "Linux"}
    /\ FsType_from_str(config.fs_type) \in {"Ext4", "Fat32", "Zfs", "Lvm", "Swap"}

Partition_Config_is_valid(config) ==
    /\ config.id # 0
    /\ PartitionType_from_str(config.partition_type) \in {"Efi", "Linux"}
    /\ FsType_from_str(config.fs_type) \in {"Ext4", "Fat32", "Zfs", "Lvm", "Swap"}
    /\ config.label # ""

Disk_Config_is_valid(config) ==
    /\ config.device # ""
    /\ \A p \in DOMAIN config.partitions :
            Partition_Config_is_valid(config.partitions[p])

Filesystem_Config_is_valid(config) ==
    \A d \in DOMAIN config.disks : Disk_Config_is_valid(config.disks[d])

-----------------------------------------------------------------------------
\* The role lookups: Filesystem::find_system_disk, Disk::find_root_partition
\* and Disk::find_efi_partition. A lookup answers [res, node]: the node is a
\* handle [kind, d, p, i] on a partition, a volume or a pooled filesystem of
\* the tree, and NoNode when the lookup failed.

Handle(kind, d, p, i) == [kind |-> kind, d |-> d, p |-> p, i |-> i]

NoNode == Handle("None", 0, 0, 0)

Found(node) == [res |-> Ok, node |-> node]

NotFound(error) == [res |-> error, node |-> NoNode]

\* The turn of a search loop that returns nothing: the loop goes on.
Continue == [res |-> "continue", node |-> NoNode]

First(s) == CHOOSE x \in s : \A y \in s : x <= y

Filesystem_find_system_disk(f) ==
    LET hits == {d \in DOMAIN f : f[d].config.contains_system}
    IN  IF hits = {} THEN NotFound(generic_error("System disk not found"))
        ELSE Found(Handle("Disk", First(hits), 0, 0))

\* Faulty variant of Root_in_partition: the pooled filesystems are not
\* examined.
Root_in_partition_no_pool(f, d, p) ==
    LET part == f[d].partitions[p]
        volumes == {v \in DOMAIN part.lvm.volumes :
                        part.lvm.volumes[v].config.is_root}
    IN  IF part.config.is_root THEN Found(Handle("Partition", d, p, 0))
        ELSE IF ~part.config.is_system THEN Continue
        ELSE IF volumes # {} THEN Found(Handle("Volume", d, p, First(volumes)))
        ELSE Continue

\* Faulty variant of Root_in_partition: the pooled filesystems are examined
\* before the volumes.
Root_in_partition_pool_first(f, d, p) ==
    LET part == f[d].partitions[p]
        volumes == {v \in DOMAIN part.lvm.volumes :
                        part.lvm.volumes[v].config.is_root}
        filesystems == {z \in DOMAIN part.zfs.filesystems :
                            part.zfs.filesystems[z].config.is_root}
    IN  IF part.config.is_root THEN Found(Handle("Partition", d, p, 0))
        ELSE IF ~part.config.is_system THEN Continue
        ELSE IF filesystems # {}
             THEN Found(Handle("Filesystem", d, p, First(filesystems)))
        ELSE IF volumes # {} THEN Found(Handle("Volume", d, p, First(volumes)))
        ELSE Continue

\* One turn of the loop of find_root_partition: the node partition p of
\* disk d yields, or Continue when the loop goes on to the next partition.
Root_in_partition(f, d, p) ==
    LET part == f[d].partitions[p]
        volumes == {v \in DOMAIN part.lvm.volumes :
                        part.lvm.volumes[v].config.is_root}
        filesystems == {z \in DOMAIN part.zfs.filesystems :
                            part.zfs.filesystems[z].config.is_root}
    IN  IF part.config.is_root THEN Found(Handle("Partition", d, p, 0))
        ELSE IF ~part.config.is_system THEN Continue
        ELSE IF volumes # {} THEN Found(Handle("Volume", d, p, First(volumes)))
        ELSE IF filesystems # {}
             THEN Found(Handle("Filesystem", d, p, First(filesystems)))
        ELSE Continue

\* Faulty variant of Disk_find_root_partition: a disk without a root node
\* answers its first partition.
Disk_find_root_or_first(f, d) ==
    LET hits == {p \in DOMAIN f[d].partitions : Root_in_partition(f, d, p) # Continue}
    IN  IF hits = {} THEN Found(Handle("Partition", d, 1, 0))
        ELSE Root_in_partition(f, d, First(hits))

\* Faulty variant of Disk_find_root_partition: the last partition that
\* yields a node wins.
Disk_find_root_last(f, d) ==
    LET hits == {p \in DOMAIN f[d].partitions : Root_in_partition(f, d, p) # Continue}
    IN  IF hits = {} THEN NotFound(generic_error("Root partition not found"))
        ELSE Root_in_partition(f, d, CHOOSE p \in hits : \A q \in hits : q <= p)

Disk_find_root_partition(f, d) ==
    LET hits == {p \in DOMAIN f[d].partitions : Root_in_partition(f, d, p) # Continue}
    IN  IF hits = {} THEN NotFound(generic_error("Root partition not found"))
        ELSE Root_in_partition(f, d, First(hits))

\* The loop of find_efi_partition over the volumes of partition p, from
\* volume v on: the first EFI volume, or the error of a failed from_str(..)?.
RECURSIVE Efi_in_volumes(_, _, _, _)
Efi_in_volumes(f, d, p, v) ==
    LET volumes == f[d].partitions[p].lvm.volumes
    IN  IF v > Len(volumes) THEN Continue
        ELSE LET volume_type ==
                    PartitionType_from_str(volumes[v].config.volume_type)
             IN  IF volume_type = "Efi" THEN Found(Handle("Volume", d, p, v))
                 ELSE IF volume_type # "Linux" THEN NotFound(volume_type)
                 ELSE Efi_in_volumes(f, d, p, v + 1)

\* One turn of the loop of find_efi_partition: the node it returns, the
\* error of a failed from_str(..)?, or Continue when the loop goes on to the
\* next partition.
Efi_in_partition(f, d, p) ==
    LET part == f[d].partitions[p]
        partition_type == PartitionType_from_str(part.config.partition_type)
    IN  IF partition_type = "Efi" THEN Found(Handle("Partition", d, p, 0))
        ELSE IF partition_type # "Linux" THEN NotFound(partition_type)
        ELSE IF ~part.config.is_system THEN Continue
        ELSE Efi_in_volumes(f, d, p, 1)

RECURSIVE Disk_find_efi_from(_, _, _)
Disk_find_efi_from(f, d, p) ==
    IF p > Len(f[d].partitions)
    THEN NotFound(generic_error("EFI partition not found"))
    ELSE LET r == Efi_in_partition(f, d, p)
         IN  IF r = Continue THEN Disk_find_efi_from(f, d, p + 1) ELSE r

Disk_find_efi_partition(f, d) == Disk_find_efi_from(f, d, 1)

\* fs.find_system_disk()?.find_root_partition()? and
\* fs.find_system_disk()?.find_efi_partition()? of the installer.
find_root(f) ==
    LET system == Filesystem_find_system_disk(f)
    IN  IF system.res # Ok THEN system
        ELSE Disk_find_root_partition(f, system.node.d)

find_efi(f) ==
    LET system == Filesystem_find_system_disk(f)
    IN  IF system.res # Ok THEN system
        ELSE Disk_find_efi_partition(f, system.node.d)

-----------------------------------------------------------------------------------------------------------------------------------------------------
\* Layouts for the role lookups: MaxDisks disks, each with a plain partition
\* and a partition holding two volumes and a pooled filesystem; the flags
\* and the type tags are drawn from RoleFlags.

Nested(p) == p = 2

DiskNodes(d) ==
    {Handle("Partition", d, 1, 0), Handle("Partition", d, 2, 0),
     Handle("Volume", d, 2, 1), Handle("Volume", d, 2, 2),
     Handle("Filesystem", d, 2, 1)}

Tag(node, efis, bogus) ==
    IF node \in efis THEN "efi" ELSE IF node \in bogus THEN "bogus" ELSE "linux"

RoleVolume(d, p, v, roots, efis, bogus) ==
    [VolumeConfig(v, Size(0, "Byte"), "ext4") EXCEPT
        !.is_root = Handle("Volume", d, p, v) \in roots,
        !.volume_type = Tag(Handle("Volume", d, p, v), efis, bogus)]

RoleZfs(d, p, z, roots) ==
    [ZfsConfig(z) EXCEPT !.is_root = Handle("Filesystem", d, p, z) \in roots]

RolePartition(d, p, hosting, roots, efis, bogus) ==
    [PartitionConfig(p, "d" \o ToString(d) \o "p" \o ToString(p), FALSE,
        IF Nested(p) THEN "lvm" ELSE "ext4",
        IF Nested(p)
        THEN [v \in 1..2 |-> RoleVolume(d, p, v, roots, efis, bogus)]
        ELSE <<>>,
        IF Nested(p) THEN [z \in 1..1 |-> RoleZfs(d, p, z, roots)] ELSE <<>>)
     EXCEPT
        !.is_system = d \in hosting,
        !.is_root = Handle("Partition", d, p, 0) \in roots,
        !.partition_type = Tag(Handle("Partition", d, p, 0), efis, bogus)]

RoleLayout(system, hosting, roots, efis, bogus) ==
    [disks |->
        [d \in 1..MaxDisks |->
            [DiskConfig("/dev/" \o DiskNames[d], FALSE,
                [p \in 1..2 |->
                    RolePartition(d, p, hosting, roots, efis, bogus)])
             EXCEPT !.contains_system = d \in system]]]

UpTo(n, s) == {x \in SUBSET s : Cardinality(x) <= n}

\* No disk, one disk or every disk.
Choices == UpTo(1, 1..MaxDisks) \cup {1..MaxDisks}

\* Up to two root flags on one disk and no EFI tag; or no root flag and up
\* to two EFI tags on one disk; or one volume with an unknown type tag and
\* at most one EFI tag on its disk. The partitions' own tags are always
\* recognised ones.
RoleFlags ==
    UNION {LET nodes == DiskNodes(d)
               tagged == {n \in nodes : n.kind # "Filesystem"}
               volumes == {n \in nodes : n.kind = "Volume"}
           IN  {[roots |-> r, efis |-> {}, bogus |-> {}] : r \in UpTo(2, nodes)}
               \cup {[roots |-> {}, efis |-> e, bogus |-> {}] :
                        e \in UpTo(2, tagged)}
               \cup UNION {{[roots |-> {}, efis |-> e, bogus |-> {b}] :
                                e \in UpTo(1, tagged \ {b})} : b \in volumes} :
           d \in 1..MaxDisks}

\* system: the disks flagged as containing the system; hosting: the disks
\* whose second partition is flagged as hosting the system.
RoleLayouts ==
    {RoleLayout(system, hosting, x.roots, x.efis, x.bogus) :
        system \in Choices, hosting \in Choices, x \in RoleFlags}

-----
\* The role lookups on a tree loaded from a layout document.

Located(op, r) ==
    [op |-> op, d |-> 0, p |-> 0, v |-> 0, log |-> <<>>, res |-> r.res,
     node |-> r.node]

FindRoot ==
    /\ last' = Located("find_root", find_root(fs))
    /\ UNCHANGED <<fs, world>>

FindEfi ==
    /\ last' = Located("find_efi", find_efi(fs))
    /\ UNCHANGED <<fs, world>>

\* The same layout with the ids of each disk's partitions in descending
\* order: the document lists the partition of highest id first.
SwapIds(layout) ==
    [disks |->
        [d \in DOMAIN layout.disks |->
            [layout.disks[d] EXCEPT !.partitions =
                [p \in DOMAIN layout.disks[d].partitions |->
                    [layout.disks[d].partitions[p] EXCEPT !.id =
                        Len(layout.disks[d].partitions) + 1 - p]]]]]

InitLocate ==
    /\ \E layout \in RoleLayouts \cup {SwapIds(l) : l \in RoleLayouts} :
        /\ Filesystem_Config_is_valid(layout)
        /\ fs = Filesystem_from_config(layout)
    /\ world = EmptyWorld
    /\ last = Located("none", Found(NoNode))

NextLocate == FindRoot \/ FindEfi

SpecLocate == InitLocate /\ [][NextLocate]_vars

-----------------------------------------------------------------------------
\* The nodes of a tree and their flags.

TreeNodes(f) ==
    UNION {UNION {{Handle("Partition", d, p, 0)}
                  \cup {Handle("Volume", d, p, v) :
                            v \in DOMAIN f[d].partitions[p].lvm.volumes}
                  \cup {Handle("Filesystem", d, p, z) :
                            z \in DOMAIN f[d].partitions[p].zfs.filesystems} :
                  p \in DOMAIN f[d].partitions} :
           d \in DOMAIN f}

NodeConfig(f, n) ==
    CASE n.kind = "Partition" -> f[n.d].partitions[n.p].config
      [] n.kind = "Volume" -> f[n.d].partitions[n.p].lvm.volumes[n.i].config
      [] n.kind = "Filesystem" ->
            f[n.d].partitions[n.p].zfs.filesystems[n.i].config

RootFlagged(f) == {n \in TreeNodes(f) : NodeConfig(f, n).is_root}

SystemDisks(f) == {d \in DOMAIN f : f[d].config.contains_system}

\* Node n is on the first disk flagged as containing the system and, when
\* it is nested in a partition, that partition is flagged as hosting the
\* system.
Searched(f, n) ==
    /\ SystemDisks(f) # {}
    /\ n.d = First(SystemDisks(f))
    /\ n.kind # "Partition" => f[n.d].partitions[n.p].config.is_system

\* C11 as stated: whenever exactly one node of the layout carries the root
\* flag, the root lookup (find_system_disk, then find_root_partition)
\* returns that node, whichever disk, partition and technology hosts it.
C11_RootLookupFindsFlagged ==
    (last.op = "find_root" /\ Cardinality(RootFlagged(fs)) = 1)
        => /\ last.res = Ok
           /\ last.node \in RootFlagged(fs)

\* C11: whenever exactly one node of the layout carries the root flag, the
\* root lookup returns that node if it is on the first disk flagged as
\* containing the system and, when nested in a partition, that partition is
\* flagged as hosting the system; otherwise the lookup fails, with 'System
\* disk not found' when no disk is flagged and 'Root partition not found'
\* when one is.
C11_RootLookupFindsSearched ==
    (last.op = "find_root" /\ Cardinality(RootFlagged(fs)) = 1)
        => \A n \in RootFlagged(fs) :
            IF Searched(fs, n)
            THEN last.res = Ok /\ last.node = n
            ELSE /\ last.node = NoNode
                 /\ last.res =
                        IF SystemDisks(fs) = {}
                        THEN generic_error("System disk not found")
                        ELSE generic_error("Root partition not found")

\* The only root flag is on the pooled filesystem of the second disk, the
\* only disk flagged as containing the system, and the lookup returned it.
C11_Witness ==
    /\ last.op = "find_root"
    /\ RootFlagged(fs) = {Handle("Filesystem", 2, 2, 1)}
    /\ SystemDisks(fs) = {2}
    /\ last.res = Ok
    /\ last.node = Handle("Filesystem", 2, 2, 1)

\* C12 as stated: whenever no node of the layout carries the root flag, the
\* root lookup fails with 'Root partition not found': it returns neither a
\* node nor a different error.
C12_NoRootNotFound ==
    (last.op = "find_root" /\ RootFlagged(fs) = {})
        => /\ last.res = generic_error("Root partition not found")
           /\ last.node = NoNode

\* C12: whenever no node of the layout carries the root flag, the root
\* lookup returns no node; it fails with 'Root partition not found' when
\* some disk is flagged as containing the system and with 'System disk not
\* found' when none is.
C12_NoRootFails ==
    (last.op = "find_root" /\ RootFlagged(fs) = {})
        => /\ last.node = NoNode
           /\ last.res =
                IF SystemDisks(fs) = {}
                THEN generic_error("System disk not found")
                ELSE generic_error("Root partition not found")

\* No root flag anywhere, the first disk flagged as containing the system
\* with its nested partition flagged as hosting it: the lookup went through
\* every partition, volume and pooled filesystem and failed.
C12_Witness ==
    /\ last.op = "find_root"
    /\ RootFlagged(fs) = {}
    /\ 1 \in SystemDisks(fs)
    /\ fs[1].partitions[2].config.is_system
    /\ last.res = generic_error("Root partition not found")

\* The order in which a disk's nodes are visited: partition by partition,
\* the partition itself, then its volumes, then its pooled filesystems.
Rank(n) ==
    100 * n.p + n.i
        + (CASE n.kind = "Partition" -> 0
             [] n.kind = "Volume" -> 10
             [] n.kind = "Filesystem" -> 20)

FirstNode(nodes) == CHOOSE n \in nodes : \A m \in nodes : Rank(n) <= Rank(m)

\* The nodes of disk d that qualify as the EFI target: the partitions whose
\* type tag is EFI and, in the partitions flagged as hosting the system,
\* the volumes whose type tag is EFI.
EfiQualified(f, d) ==
    {n \in TreeNodes(f) :
        /\ n.d = d
        /\ \/ /\ n.kind = "Partition"
              /\ PartitionType_from_str(NodeConfig(f, n).partition_type) = "Efi"
           \/ /\ n.kind = "Volume"
              /\ f[d].partitions[n.p].config.is_system
              /\ PartitionType_from_str(NodeConfig(f, n).volume_type) = "Efi"}

\* C13: on the system disk of a validated layout the EFI lookup returns the
\* first partition whose type tag is EFI or, inside a partition flagged as
\* hosting the system, the first volume whose type tag is EFI, never a
\* pooled filesystem; when no node qualifies it fails with 'EFI partition
\* not found'.
C13_EfiLookup ==
    (last.op = "find_efi" /\ SystemDisks(fs) # {})
        => LET qualified == EfiQualified(fs, First(SystemDisks(fs)))
           IN  /\ last.node.kind # "Filesystem"
               /\ IF qualified # {}
                  THEN last.res = Ok /\ last.node = FirstNode(qualified)
                  ELSE /\ last.res = generic_error("EFI partition not found")
                       /\ last.node = NoNode

\* The nodes of the searched disk that qualify as the root: flagged root
\* and, when nested, in a partition flagged as hosting the system.
RootQualified(f) == {n \in RootFlagged(f) : Searched(f, n)}

-----------------------------------------------------------------------------
\* Layout documents. A document is a configuration as it stands in a JSON
\* file: the sizes are strings. Reading a document parses them (Deserialize
\* for Bytesize, through From<&str>), writing one prints them (Serialize
\* for Bytesize, through to_string).

SizeUnit_from(s) ==
    CASE s = "B" -> "Byte"
      [] s = "K" -> "Kilo"
      [] s = "M" -> "Mega"
      [] s = "G" -> "Giga"
      [] s = "T" -> "Tera"
      [] s = "P" -> "Peta"
      [] OTHER -> "Byte"

UnitLetters == {"B", "K", "M", "G", "T", "P"}

\* The texts the pattern ^([0-9]+)([BKMGTP])*$ matches, for the values up to
\* MaxValue written with at most one leading zero and followed by at most
\* two unit letters; the second group captures the last letter.
SizeTexts ==
    {[text |-> (IF z THEN "0" ELSE "") \o ToString(v), value |-> v, unit |-> ""] :
        v \in 0..MaxValue, z \in BOOLEAN}
    \cup {[text |-> (IF z THEN "0" ELSE "") \o ToString(v) \o a,
           value |-> v, unit |-> a] :
            v \in 0..MaxValue, z \in BOOLEAN, a \in UnitLetters}
    \cup {[text |-> (IF z THEN "0" ELSE "") \o ToString(v) \o a \o b,
           value |-> v, unit |-> b] :
            v \in 0..MaxValue, z \in BOOLEAN, a \in UnitLetters, b \in UnitLetters}

Bytesize_from(s) ==
    LET captures == {c \in SizeTexts : c.text = s}
    IN  IF captures = {} THEN [value |-> 0, unit |-> SizeUnit_from("")]
        ELSE LET c == CHOOSE x \in captures : TRUE
             IN  [value |-> c.value, unit |-> SizeUnit_from(c.unit)]

Volume_deserialize(v) == [v EXCEPT !.size = Bytesize_from(@)]

Partition_deserialize(p) ==
    [p EXCEPT !.size = Bytesize_from(@),
              !.lvm = [v \in DOMAIN p.lvm |-> Volume_deserialize(p.lvm[v])]]

Disk_deserialize(d) ==
    [d EXCEPT !.partitions =
        [p \in DOMAIN d.partitions |-> Partition_deserialize(d.partitions[p])]]

load_json(document) ==
    [disks |-> [d \in DOMAIN document.disks |-> Disk_deserialize(document.disks[d])]]

Volume_serialize(v) == [v EXCEPT !.size = Bytesize_to_string(@)]

Partition_serialize(p) ==
    [p EXCEPT !.size = Bytesize_to_string(@),
              !.lvm = [v \in DOMAIN p.lvm |-> Volume_serialize(p.lvm[v])]]

Disk_serialize(d) ==
    [d EXCEPT !.partitions =
        [p \in DOMAIN d.partitions |-> Partition_serialize(d.partitions[p])]]

json_to_string(config) ==
    [disks |-> [d \in DOMAIN config.disks |-> Disk_serialize(config.disks[d])]]

\* Filesystem::from_json on a readable document: [res, fs], fs being the
\* tree built, and no tree (no disk) when the document is rejected.
Filesystem_from_json(document) ==
    LET config == load_json(document)
    IN  IF ~Filesystem_Config_is_valid(config)
        THEN [res |-> generic_error("Filesystem configuration is not valid"),
              fs |-> <<>>]
        ELSE [res |-> Ok, fs |-> Filesystem_from_config(config)]

\* Filesystem::to_json: the document written.
Filesystem_to_json(f) == json_to_string(Filesystem_to_config(f))

-----------------------------------------------------------------------------
\* Documents given to Filesystem::from_json: one disk of one or two
\* partitions. The first partition listed is drawn from PartitionDocs: a
\* valid partition with each size text, with a volume, with its resolved
\* fields set, or with one required field missing or unrecognised.

SizeDocs == {"0", "0G", "10G", "10", "010M", "1GM", "junk"}

PartitionDoc(id, size) ==
    [PartitionConfig(id, "p" \o ToString(id), FALSE, "ext4", <<>>, <<>>)
        EXCEPT !.size = size]

PartitionDocs(id) ==
    LET plain == PartitionDoc(id, "0")
    IN  {PartitionDoc(id, size) : size \in SizeDocs}
        \cup {[plain EXCEPT !.fs_type = "lvm",
                            !.lvm = <<VolumeConfig(1, size, "ext4")>>] :
                size \in {"0", "0G", "10G"}}
        \cup {[plain EXCEPT !.encrypted = TRUE,
                            !.device = "/dev/sda" \o ToString(id),
                            !.device_name = "sda" \o ToString(id),
                            !.device_by_id = "/dev/disk/by-id/ata-sda" \o ToString(id),
                            !.device_by_partlabel = "/dev/disk/by-partlabel/" \o plain.label,
                            !.luks_mapper = "/dev/mapper/" \o plain.label],
               [plain EXCEPT !.id = 0],
               [plain EXCEPT !.partition_type = "bogus"],
               [plain EXCEPT !.fs_type = "bogus"],
               [plain EXCEPT !.label = ""]}

Documents ==
    {[disks |-> <<DiskConfig(device, FALSE, partitions)>>] :
        device \in {"/dev/sda", ""},
        partitions \in {<<x>> : x \in PartitionDocs(1)}
                       \cup {<<x, PartitionDoc(1, "10G")>> : x \in PartitionDocs(2)}}

Loaded(op, prev, res, doc) ==
    [op |-> op, d |-> 0, p |-> 0, v |-> 0, log |-> <<>>, res |-> res,
     prev |-> prev, doc |-> doc]

\* Filesystem::from_json on the document last.doc.
FromJson ==
    LET r == Filesystem_from_json(last.doc)
    IN  /\ fs' = r.fs
        /\ last' = Loaded("from_json", last.op, r.res, last.doc)
        /\ UNCHANGED world

\* Filesystem::to_json: the document of the tree replaces last.doc.
ToJson ==
    /\ last.op = "from_json"
    /\ last.res = Ok
    /\ last' = Loaded("to_json", last.op, Ok, Filesystem_to_json(fs))
    /\ UNCHANGED <<fs, world>>

InitConfig ==
    /\ fs = <<>>
    /\ world = EmptyWorld
    /\ \E document \in Documents : last = Loaded("none", "none", Ok, document)

NextConfig == FromJson \/ ToJson

SpecConfig == InitConfig /\ [][NextConfig]_vars

-----------------------------------------------------------------------------
\* Every disk of the document has a device path and every partition a
\* non-zero id, a recognised partition type, a recognised filesystem type
\* and a label.
WellFormed(document) ==
    \A d \in DOMAIN document.disks :
        /\ document.disks[d].device # ""
        /\ \A p \in DOMAIN document.disks[d].partitions :
            LET partition == document.disks[d].partitions[p]
            IN  /\ partition.id # 0
                /\ partition.partition_type \in {"efi", "ef00", "linux", "8300"}
                /\ partition.fs_type \in {"ext4", "fat32", "zfs", "lvm", "swap"}
                /\ partition.label # ""

\* C15 as stated: Filesystem::from_json succeeds exactly when every disk
\* has a device path and every partition a non-zero id, recognised type
\* tags and a label; otherwise it fails with 'Invalid configuration' and
\* builds no tree.
C15_FromJsonInvalidConfiguration ==
    last.op = "from_json"
        => /\ last.res = Ok <=> WellFormed(last.doc)
           /\ last.res = Ok => Len(fs) = Len(last.doc.disks)
           /\ last.res # Ok
                => /\ last.res = generic_error("Invalid configuration")
                   /\ fs = <<>>

\* C15: Filesystem::from_json succeeds, building one disk of the tree per
\* disk of the document, exactly when every disk has a device path and
\* every partition a non-zero id, recognised type tags and a label;
\* otherwise it fails with 'Filesystem configuration is not valid' and
\* builds no tree.
C15_FromJsonNotValid ==
    last.op = "from_json"
        => /\ last.res = Ok <=> WellFormed(last.doc)
           /\ last.res = Ok => Len(fs) = Len(last.doc.disks)
           /\ last.res # Ok
                => /\ last.res =
                        generic_error("Filesystem configuration is not valid")
                   /\ fs = <<>>

\* A document whose only fault is the empty label of its second-listed
\* partition has been rejected.
C15_Witness ==
    /\ last.op = "from_json"
    /\ last.res # Ok
    /\ fs = <<>>
    /\ last.doc.disks[1].device # ""
    /\ Len(last.doc.disks[1].partitions) = 2
    /\ last.doc.disks[1].partitions[1].label = ""
    /\ last.doc.disks[1].partitions[1].id # 0

\* The unit of a null size does not show in a document: it reads back as
\* bytes.
Bytesize_normal(size) ==
    IF size.value = 0 THEN [size EXCEPT !.unit = "Byte"] ELSE size

Config_normal(config) ==
    [disks |->
        [d \in DOMAIN config.disks |->
            [config.disks[d] EXCEPT !.partitions =
                [p \in DOMAIN config.disks[d].partitions |->
                    [config.disks[d].partitions[p] EXCEPT
                        !.size = Bytesize_normal(@),
                        !.lvm = [v \in DOMAIN config.disks[d].partitions[p].lvm |->
                                    [config.disks[d].partitions[p].lvm[v] EXCEPT
                                        !.size = Bytesize_normal(@)]]]]]]]

\* C16 as stated: writing the configuration of a tree to a document and
\* building a tree from that document gives a tree whose configuration is
\* identical to the original one, sizes and their units included.
C16_RoundTripIdentical ==
    [][(last.op = "to_json" /\ last'.op = "from_json")
        => /\ last'.res = Ok
           /\ Filesystem_to_config(fs') = Filesystem_to_config(fs)]_vars

\* C16: writing the configuration of a tree to a document and building a
\* tree from that document gives a tree that writes the same document and
\* whose configuration is identical to the original one (partition order,
\* flags, nested lists, resolved fields, sizes and units), except that a
\* null size reads back with the byte unit whatever its unit was.
C16_RoundTripUpToNullUnit ==
    [][(last.op = "to_json" /\ last'.op = "from_json")
        => /\ last'.res = Ok
           /\ Filesystem_to_json(fs') = last.doc
           /\ Config_normal(Filesystem_to_config(fs'))
                = Config_normal(Filesystem_to_config(fs))]_vars

\* A tree of two partitions, listed out of order in the first document and
\* the second with its size in gigabytes, has been written and read back.
C16_Witness ==
    /\ last.op = "from_json"
    /\ last.prev = "to_json"
    /\ last.res = Ok
    /\ Len(fs[1].partitions) = 2
    /\ fs[1].partitions[1].config.size = Size(10, "Giga")
    /\ fs[1].partitions[2].config.size = Size(10, "Mega")

-----------------------------------------------------------------------------
\* partitioning.rs, Command::process: the tree is built from the document
\* layouts/<host>.in.json, created, closed, and its configuration written
\* to layouts/<host>.json.

fs_error(filepath) == "(FILESYSTEM) " \o filepath

OutPath == "layouts/host.json"

write_to_file(m, writable) ==
    IF m.res # Ok \/ writable THEN m ELSE Fail(m, fs_error(OutPath))

Only(s) == CHOOSE x \in s : TRUE

\* The context from_json leaves to the rest of the command: the tree it
\* built or, with no tree, its error.
Command_start(loaded, w, k) ==
    IF loaded.res = Ok THEN Ctx(loaded.fs, w, k)
    ELSE Fail(Ctx(<<>>, w, k), loaded.res)

\* [m, created, written]: the context the command ends in, whether
\* Filesystem::create returned Ok, and the documents written.
Command_result(m, created, written) ==
    [m |-> m, created |-> created.res = Ok,
     written |-> IF written.res = Ok THEN <<Filesystem_to_json(written.fs)>>
                 ELSE <<>>]

\* Faulty variant of Command_process: the document is written once the
\* creation is over, before the tree is closed.
Command_process_write_first(loaded, w, k, writable) ==
    Only({Only({Command_result(closed, created, written) :
                    closed \in {Filesystem_close(written)}}) :
            created \in {Filesystem_create(Command_start(loaded, w, k),
                                           KeyFile, Passphrase)},
            written \in {write_to_file(
                            Filesystem_create(Command_start(loaded, w, k),
                                              KeyFile, Passphrase), writable)}})

\* fs.create(..)?; fs.close()?; fs.to_json(..)?
Command_process(loaded, w, k, writable) ==
    Only({Only({Command_result(written, created, written) :
                    written \in {write_to_file(closed, writable)}}) :
            created \in {Filesystem_create(Command_start(loaded, w, k),
                                           KeyFile, Passphrase)},
            closed \in {Filesystem_close(
                            Filesystem_create(Command_start(loaded, w, k),
                                              KeyFile, Passphrase))}})

Processed(op, r, document) ==
    [op |-> op, d |-> 0, p |-> 0, v |-> 0, log |-> r.m.log, res |-> r.m.res,
     created |-> r.created, written |-> r.written, doc |-> document]

Partitioning ==
    /\ last.op = "none"
    /\ \E writable \in BOOLEAN :
       \E loaded \in {Filesystem_from_json(last.doc)} :
       \E k \in 0..Len(Command_process(loaded, world, 0, writable).m.log) :
       \E r \in {Command_process(loaded, world, k, writable)} :
            /\ fs' = r.m.fs
            /\ world' = r.m.world
            /\ last' = Processed("partitioning", r, last.doc)

\* The documents of the layouts, and one that validation rejects.
InitPartitioning ==
    /\ fs = <<>>
    /\ world \in {EmptyWorld, StaleWorld}
    /\ \E document \in {json_to_string(layout) : layout \in Layouts}
                       \cup {[disks |-> <<DiskConfig("", FALSE, <<>>)>>]} :
        last = Processed("none",
                         [m |-> Ctx(<<>>, world, 0), created |-> FALSE,
                          written |-> <<>>],
                         document)

NextPartitioning == Partitioning

SpecPartitioning == InitPartitioning /\ [][NextPartitioning]_vars

\* C17 as stated: the partitioning command writes the layout document
\* whenever Filesystem::create has succeeded and never when it has failed.
C17_WrittenIffCreated ==
    last.op = "partitioning" => (last.written # <<>> <=> last.created)

\* C17: the partitioning command writes the layout document, and writes the
\* configuration of the tree it ends with, exactly when the command
\* succeeds, that is when Filesystem::create, the Filesystem::close that
\* follows it and the writing itself have all succeeded; it writes nothing
\* when Filesystem::create has failed.
C17_WrittenIffClosed ==
    last.op = "partitioning"
        => /\ last.written # <<>> <=> last.res = Ok
           /\ last.res = Ok => last.created
           /\ last.written # <<>> => last.written = <<Filesystem_to_json(fs)>>
           /\ ~last.created => last.written = <<>>

\* Filesystem::create has succeeded on a layout with an encrypted volume
\* group, the close that followed failed on a tool invocation, and no
\* document has been written.
C17_Witness ==
    /\ last.op = "partitioning"
    /\ last.created
    /\ last.res # Ok
    /\ IsVgDeactivate(last.log[Len(last.log)])
    /\ last.written = <<>>

-----------------------------------------------------------------------------
\* C18: after a successful Filesystem::create every partition of every disk
\* that is not read-only has its device, its by-id path and its
\* by-partlabel path recorded, the latter being
\* /dev/disk/by-partlabel/<label>; its mapper path is recorded, as
\* /dev/mapper/<label>, exactly when it is encrypted; and every volume has
\* its device path recorded.
C18_ResolvedAfterCreate ==
    (last.op = "Filesystem::create" /\ last.res = Ok)
        => \A d \in DOMAIN fs :
            ~fs[d].config.read_only
                => \A p \in DOMAIN fs[d].partitions :
                    LET part == fs[d].partitions[p]
                        c == part.config
                    IN  /\ c.device # None
                        /\ c.device_by_id # None
                        /\ c.device_by_partlabel =
                                "/dev/disk/by-partlabel/" \o c.label
                        /\ c.luks_mapper =
                                IF c.encrypted THEN "/dev/mapper/" \o c.label
                                ELSE None
                        /\ \A v \in DOMAIN part.lvm.volumes :
                                part.lvm.volumes[v].config.device # None

\* Filesystem::create has succeeded on a two-disk layout whose second disk
\* is read-only: the first disk holds an encrypted partition with two
\* volumes and a plain one, all resolved, and the partitions of the second
\* disk are left unresolved.
C18_Witness ==
    /\ last.op = "Filesystem::create"
    /\ last.res = Ok
    /\ Len(fs) = 2
    /\ fs[2].config.read_only
    /\ fs[2].partitions[1].config.device = None
    /\ Len(fs[1].partitions) = 2
    /\ fs[1].partitions[1].config.luks_mapper = "/dev/mapper/d1p1"
    /\ fs[1].partitions[1].lvm.volumes[2].config.device = "/dev/vg-d1p1/lv2"
    /\ fs[1].partitions[2].config.device_by_id # None
    /\ fs[1].partitions[2].config.luks_mapper = None

-----------------------------------------------------------------------------
\* The invocations whose exit status is an answer and not a failure.
IsStatusQuery(c) ==
    \/ IsLuksStatus(c)
    \/ c[1] = "zpool" /\ c[2] = "list"

MultiStepOps ==
    {"Filesystem::create", "Filesystem::open", "Filesystem::close", "Disk::create"}

-----------------------------------------------------------------------------
\* secrets.rs: the command that installs the key file on the root node of a
\* layout that was created before.

io_error(description, error) == "(IO) " \o description \o " => " \o error

\* The node install_keyfile stops at: the disks that contain the system in
\* order, their partitions in order, each examined as find_root_partition
\* examines it; NoNode when the loops end without a match.
keyfile_target(f) ==
    LET hits == {h \in UNION {{<<d, p>> : p \in DOMAIN f[d].partitions} :
                                d \in DOMAIN f} :
                    /\ f[h[1]].config.contains_system
                    /\ Root_in_partition(f, h[1], h[2]) # Continue}
        first == CHOOSE h \in hits :
                    \A g \in hits :
                        h[1] < g[1] \/ (h[1] = g[1] /\ h[2] <= g[2])
    IN  IF hits = {} THEN NoNode
        ELSE Root_in_partition(f, first[1], first[2]).node

\* create_dir_all and copy, then chmod 000 on the installed file.
install_keyfile_to(m, root, copied) ==
    IF m.res # Ok THEN m
    ELSE IF ~copied THEN Fail(m, io_error("Error installing keyfile",
                                     "No such file or directory"))
    ELSE command_output(m, <<"chmod", "000",
                             root \o "/etc/secrets/disks/keyfile">>)

Node_mount(m, node, root) ==
    CASE node.kind = "Partition" -> Partition_mount(m, node.d, node.p, root)
      [] node.kind = "Volume" -> Volume_mount(m, node.d, node.p, node.i, root)
      [] node.kind = "Filesystem" ->
            Filesystem_mount(m, node.d, node.p, node.i, root)

Node_unmount(m, node) ==
    CASE node.kind = "Partition" -> Partition_unmount(m, node.d, node.p)
      [] node.kind = "Volume" -> Volume_unmount(m, node.d, node.p, node.i)
      [] node.kind = "Filesystem" ->
            Filesystem_unmount(m, node.d, node.p, node.i)

\* mount(root)?; install_keyfile_to(root)?; unmount()?
install_keyfile_in(m, node, root, copied) ==
    Only({Only({Node_unmount(installed, node) :
                    installed \in {install_keyfile_to(mounted, root, copied)}}) :
            mounted \in {Node_mount(m, node, root)}})

\* Success when the loops end without a root node.
Secrets_install_keyfile(m, root, copied) ==
    IF m.res # Ok \/ keyfile_target(m.fs) = NoNode THEN m
    ELSE install_keyfile_in(m, keyfile_target(m.fs), root, copied)

Secrets_start(loaded, w, k, q) ==
    IF loaded.res = Ok THEN CtxBroken(loaded.fs, w, k, q)
    ELSE Fail(CtxBroken(<<>>, w, k, q), loaded.res)

\* from_json(..)?; fs.open(..)?; install_keyfile(..)?; fs.close()?
Secrets_process(loaded, w, k, q, copied) ==
    Only({Only({Filesystem_close(installed) :
                    installed \in {Secrets_install_keyfile(opened, MountPoint,
                                                           copied)}}) :
            opened \in {Filesystem_open(Secrets_start(loaded, w, k, q),
                                        Passphrase)}})

\* The document of a created layout with the roles set: every disk contains
\* the system or none does, every partition hosts it or none does, and
\* root (if any) is the one node flagged as root.
WithRoles(config, system, hosting, root) ==
    [disks |->
        [d \in DOMAIN config.disks |->
            [config.disks[d] EXCEPT
                !.contains_system = system,
                !.partitions =
                    [p \in DOMAIN config.disks[d].partitions |->
                        LET part == config.disks[d].partitions[p]
                        IN  [part EXCEPT
                                !.is_system = hosting,
                                !.is_root = root = Handle("Partition", d, p, 0),
                                !.lvm = [v \in DOMAIN part.lvm |->
                                    [part.lvm[v] EXCEPT !.is_root =
                                        root = Handle("Volume", d, p, v)]],
                                !.zfs = [z \in DOMAIN part.zfs |->
                                    [part.zfs[z] EXCEPT !.is_root =
                                        root = Handle("Filesystem", d, p, z)]]]]]]]

\* What the partitioning command leaves behind for `layout`.
Partitioned(layout) ==
    Command_process(Filesystem_from_json(json_to_string(layout)), EmptyWorld,
                    0, TRUE)

Installed(op, m, target, document) ==
    [op |-> op, log |-> m.log, res |-> m.res, fail |-> m.fail,
     broken |-> m.broken, target |-> target, doc |-> document]

\* The secrets command, run once on the document; at most one command
\* fails, or at most one status query cannot be run.
Secrets ==
    /\ last.op = "none"
    /\ \E copied \in BOOLEAN :
       \E loaded \in {Filesystem_from_json(last.doc)} :
       \E full \in {Secrets_process(loaded, world, 0, 0, copied).log} :
       \E k \in 0..Len(full) :
       \E q \in {0} \cup {i \in 1..Len(full) : k = 0 /\ IsStatusQuery(full[i])} :
       \E m \in {Secrets_process(loaded, world, k, q, copied)} :
            /\ fs' = m.fs
            /\ world' = m.world
            /\ last' = Installed("secrets", m, keyfile_target(loaded.fs),
                                 last.doc)

InitSecrets ==
    /\ fs = <<>>
    /\ \E nd \in 1..MaxDisks : \E np \in 1..MaxParts :
       \E done \in {Partitioned(Layout(nd, np, 1, 0))} :
       \E system \in BOOLEAN : \E hosting \in BOOLEAN :
       \E root \in {NoNode} \cup TreeNodes(done.m.fs) :
            /\ world = done.m.world
            /\ last = Installed("none", Ctx(<<>>, world, 0), NoNode,
                            json_to_string(WithRoles(
                                load_json(done.written[1]),
                                system, hosting, root)))

NextSecrets == Secrets

SpecSecrets == InitSecrets /\ [][NextSecrets]_vars

\* C20: no failure is suppressed.  Whenever a command of the secrets
\* command fails, or a status query cannot be run, or the search for the
\* root node finds no match, the command returns an error.
C20_NoFailureSuppressed ==
    last.op = "secrets" =>
        /\ (/\ last.fail \in 1..Len(last.log)
            /\ ~IsStatusQuery(last.log[last.fail])) => last.res # Ok
        /\ (/\ last.broken \in 1..Len(last.log)
            /\ IsStatusQuery(last.log[last.broken])) => last.res # Ok
        /\ last.target = NoNode => last.res # Ok

-----------------------------------------------------------------------------
\* Read-only disks.

\* The commands that write: table wipe and partition creation, encryption
\* format and key, filesystem, volume and pool creation, pool destroy.
IsWriteStep(c) ==
    \/ c[1] = "sgdisk"
    \/ c[1] = "cryptsetup" /\ c[2] \in {"luksFormat", "luksAddKey"}
    \/ c[1] \in {"lvcreate", "zfs"}
    \/ IsCreation(c)
    \/ c[1] = "zpool" /\ c[2] = "destroy"

\* The names under which the storage of partition part is addressed.
StorageNames(part) ==
    ({part.config.label,
      "/dev/mapper/" \o part.config.label,
      "vg-" \o part.config.label,
      part.config.device, part.config.device_by_id,
      part.config.device_by_partlabel}
     \cup {"/dev/vg-" \o part.config.label \o "/"
                \o part.lvm.volumes[v].config.label :
                    v \in DOMAIN part.lvm.volumes}
     \cup {part.config.label \o "/" \o part.zfs.filesystems[z].config.name :
                    z \in DOMAIN part.zfs.filesystems}) \ {None}

ReadOnlyNames(f) ==
    UNION {{f[d].config.device}
           \cup UNION {StorageNames(f[d].partitions[p]) :
                            p \in DOMAIN f[d].partitions} :
            d \in {x \in DOMAIN f : f[x].config.read_only}}

\* C21: during Filesystem::create no write step is applied to a read-only
\* disk, nor to storage hosted on such a disk.
C21_ReadOnlyUntouched ==
    last.op = "Filesystem::create" =>
        \A i \in 1..Len(last.log) :
            IsWriteStep(last.log[i]) =>
                \A j \in 1..Len(last.log[i]) :
                    last.log[i][j] \notin ReadOnlyNames(fs)

\* C22: Partition::open on a partition that is closed in memory while its
\* mapper is already active issues no luksOpen, activates the volume group
\* if the partition has one, and leaves the partition opened.
C22_ActiveMapperOpen ==
    [][(/\ last'.op = "Partition::open"
        /\ last'.res = Ok
        /\ ~fs[last'.d].partitions[last'.p].opened
        /\ fs[last'.d].partitions[last'.p].config.encrypted
        /\ fs[last'.d].partitions[last'.p].config.label \in world.mapper)
            => /\ \A i \in 1..Len(last'.log) : ~IsLuksOpen(last'.log[i])
               /\ fs'[last'.d].partitions[last'.p].opened
               /\ (/\ Lvm_is_valid(fs[last'.d].partitions[last'.p].lvm)
                   /\ ~fs[last'.d].partitions[last'.p].lvm.opened)
                    => /\ \E i \in 1..Len(last'.log) :
                            /\ IsVgActivate(last'.log[i])
                            /\ last'.log[i][4] =
                                "vg-" \o fs[last'.d].partitions[last'.p].config.label
                       /\ ("vg-" \o fs[last'.d].partitions[last'.p].config.label)
                            \in world'.vgs]_vars

\* Partition::open found the mapper active and went on to the volume group.
C22_Witness ==
    /\ last.op = "Partition::open"
    /\ last.res = Ok
    /\ Len(last.log) = 2
    /\ IsLuksStatus(last.log[1])
    /\ IsVgActivate(last.log[2])
    /\ fs[last.d].partitions[last.p].opened
    /\ fs[last.d].partitions[last.p].config.label \in world.mapper

IsPoolList(c) == c = <<"zpool", "list", "-H", "-o", "name">>

IsPoolDestroy(c) == c[1] = "zpool" /\ c[2] = "destroy"

IsDiskWipe(c) == c[1] = "sgdisk" /\ c[2] = "-Z"

\* The names under which disk d of tree f and what it hosts are addressed.
DiskStorage(f, d) ==
    {f[d].config.device}
    \cup UNION {StorageNames(f[d].partitions[p]) : p \in DOMAIN f[d].partitions}

\* A creation, encryption or format step applied to disk d of tree f.
IsStepOn(c, f, d) ==
    /\ IsWriteStep(c)
    /\ ~IsDiskWipe(c)
    /\ ~IsPoolDestroy(c)
    /\ \E j \in 1..Len(c) : c[j] \in DiskStorage(f, d)

\* C23: in Filesystem::create the wipe of a disk precedes every creation,
\* encryption and format step applied to that disk; the pool wipeout is
\* issued exactly once, before the first disk wipe, and destroys every pool
\* visible when the creation starts (and nothing else).
C23_WipeFirst ==
    [][last'.op = "Filesystem::create" =>
        /\ \A j \in 1..Len(last'.log) : \A d \in DOMAIN fs' :
            IsStepOn(last'.log[j], fs', d) =>
                \E i \in 1..(j - 1) :
                    last'.log[i] = <<"sgdisk", "-Z", fs'[d].config.device>>
        /\ Cardinality({i \in 1..Len(last'.log) : IsPoolList(last'.log[i])}) = 1
        /\ IsPoolList(last'.log[1])
        /\ \A i \in 1..Len(last'.log) :
            IsPoolDestroy(last'.log[i]) =>
                /\ last'.log[i][4] \in Range(world.pools)
                /\ \A j \in 2..(i - 1) : IsPoolDestroy(last'.log[j])
        /\ (\E i \in 1..Len(last'.log) : IsDiskWipe(last'.log[i])) =>
                \A name \in Range(world.pools) :
                    \E i \in 1..Len(last'.log) :
                        /\ last'.log[i] = <<"zpool", "destroy", "-f", name>>
                        /\ \A j \in 1..i : ~IsDiskWipe(last'.log[j])]_vars

\* A creation that destroyed a pool, then wiped and created two disks.
C23_Witness ==
    /\ last.op = "Filesystem::create"
    /\ last.res = Ok
    /\ Len(last.log) > 2
    /\ Len(fs) = 2
    /\ IsPoolDestroy(last.log[2])
    /\ \E j \in 1..Len(last.log) :
        IsLuksFormat(last.log[j]) /\ IsStepOn(last.log[j], fs, 1)
    /\ \E j \in 1..Len(last.log) :
        IsTableStep(last.log[j]) /\ IsStepOn(last.log[j], fs, 2)
    /\ Cardinality({i \in 1..Len(last.log) : IsDiskWipe(last.log[i])}) = 2
    /\ \E i \in 1..Len(last.log) : IsPoolCreate(last.log[i])

-----------------------------------------------------------------------------
\* Partition ids.  One disk whose partitions carry ids that need not start
\* at 1, listed in any order in the document; some partition devices may
\* have no by-id link.

MaxId == MaxParts + 1

IdOrders ==
    UNION {{ids \in [1..n -> 1..MaxId] :
                \A i, j \in 1..n : i # j => ids[i] # ids[j]} :
            n \in 1..MaxParts}

\* The i-th partition of the document has id ids[i] and is labelled after
\* its position i in the document; the partitions of odd id hold an
\* encrypted volume group, those of even id an encrypted ext4.
IdLayout(ids) ==
    [disks |->
        <<DiskConfig("/dev/" \o DiskNames[1], FALSE,
            [i \in 1..Len(ids) |->
                [ProfilePartition(1, i, Profiles[2 * (2 - (ids[i] % 2))])
                    EXCEPT !.id = ids[i]]])>>]

InitIds ==
    \E ids \in IdOrders :
    \E unlinked \in {{}} \cup {{DiskNames[1] \o ToString(n)} : n \in 1..MaxParts} :
        /\ fs = Filesystem_from_config(IdLayout(ids))
        /\ world = [EmptyWorld EXCEPT !.unlinked = unlinked]
        /\ last = NoOp

NextIds == DiskCreate \/ FilesystemOpen \/ FilesystemClose

SpecIds == InitIds /\ [][NextIds]_vars

\* The table step of Disk::create for partition part, if it was issued and
\* did not fail.
TableStepDone(part) ==
    \E i \in 1..Len(last.log) :
        /\ IsTableStep(last.log[i])
        /\ last.log[i][7] = "0:" \o part.config.label
        /\ i # last.fail

\* Disk::create starts on an empty table and sgdisk -n 0 takes the first
\* free number: the p-th partition created is number p, so no device node
\* carries the partition id unless the id is p.
NoDeviceNode(p) == fs[last.d].partitions[p].config.id # p

NoByIdLink(p) ==
    (DiskNames[1] \o ToString(fs[last.d].partitions[p].config.id))
        \in world.unlinked

\* C24: when, after the table entry of a partition is created, no device
\* node carries the partition id or no by-id link points at the device,
\* Disk::create returns an error, the partition's by-id and by-partlabel
\* fields stay unset and no partition of the disk is formatted.
C24_UnresolvedAborts ==
    last.op = "Disk::create" =>
        \A p \in DOMAIN fs[last.d].partitions :
            (/\ TableStepDone(fs[last.d].partitions[p])
             /\ NoDeviceNode(p) \/ NoByIdLink(p))
                => /\ last.res # Ok
                   /\ last.fail = 0 =>
                        last.res = IF NoDeviceNode(p)
                                   THEN generic_error("Cannot identify partition")
                                   ELSE generic_error("Cannot find partition ID")
                   /\ fs[last.d].partitions[p].config.device_by_id = None
                   /\ fs[last.d].partitions[p].config.device_by_partlabel = None
                   /\ \A i \in 1..Len(last.log) : ~IsFormatStep(last.log[i])

\* The second partition was entered in the table and has no by-id link.
C24_Witness ==
    /\ last.op = "Disk::create"
    /\ last.fail = 0
    /\ Len(fs[1].partitions) = 2
    /\ TableStepDone(fs[1].partitions[2])
    /\ ~NoDeviceNode(2)
    /\ NoByIdLink(2)
    /\ fs[1].partitions[1].config.device_by_id # None
    /\ fs[1].partitions[2].config.device # None
    /\ last.res = generic_error("Cannot find partition ID")

-----------------------------------------------------------------------------
\* The source a mount command names: mount <source> <mountpoint>, or
\* mount -t zfs <source> <mountpoint>.
MountSource(c) == IF c[2] = "-t" THEN c[4] ELSE c[2]

\* The stable identity of the node that the call recorded in l acts on, in
\* tree f.
NodeSource(f, l) ==
    LET part == f[l.d].partitions[l.p]
    IN  CASE l.op = "Partition::mount" ->
                "/dev/disk/by-id/"
                    \o ByIdLink(DiskNames[l.d] \o ToString(part.config.id))
          [] l.op = "Volume::mount" ->
                "/dev/vg-" \o part.config.label \o "/"
                    \o part.lvm.volumes[l.v].config.label
          [] l.op = "zfs::Filesystem::mount" ->
                part.config.label \o "/"
                    \o part.zfs.filesystems[l.v].config.name

StableIdentity == NodeSource(fs, last)

\* C25: the source of every mount command is the stable identity of the
\* node: the by-id path of a partition, /dev/vg-<partition label>/<volume
\* label> of a logical volume, <pool>/<name> of a pooled filesystem; never
\* the transient device or the mapper.
C25_MountSourceStable ==
    last.op \in MountOps =>
        \A i \in 1..Len(last.log) :
            last.log[i][1] = "mount" =>
                /\ MountSource(last.log[i]) = StableIdentity
                /\ MountSource(last.log[i]) \notin
                    {fs[last.d].partitions[last.p].config.device,
                     fs[last.d].partitions[last.p].config.luks_mapper}

\* An encrypted partition mounted by its by-id path.
C25_Witness ==
    /\ last.op = "Partition::mount"
    /\ last.res = Ok
    /\ fs[last.d].partitions[last.p].config.encrypted
    /\ fs[last.d].partitions[last.p].config.luks_mapper # None
    /\ last.log = <<<<"mount", fs[last.d].partitions[last.p].config.device_by_id,
                      MountPoint>>>>

\* Command c acts on partition part: it names the partition, its devices
\* or something it hosts.
StepOn(c, part) ==
    \E j \in 1..Len(c) :
        c[j] \in StorageNames(part) \cup {"0:" \o part.config.label}

\* C26: the partitions of a disk are entered in the table, formatted,
\* opened and closed in ascending id order whatever their order in the
\* document, and the configuration of the tree lists them in ascending id
\* order.
C26_AscendingIds ==
    /\ \A d \in DOMAIN fs : \A p, q \in DOMAIN fs[d].partitions :
        p < q =>
            Filesystem_to_config(fs).disks[d].partitions[p].id
                < Filesystem_to_config(fs).disks[d].partitions[q].id
    /\ last.op \in {"Disk::create", "Filesystem::open", "Filesystem::close"} =>
        \A i, j \in 1..Len(last.log) : \A p, q \in DOMAIN fs[1].partitions :
            (/\ i < j
             /\ IsTableStep(last.log[i]) <=> IsTableStep(last.log[j])
             /\ StepOn(last.log[i], fs[1].partitions[p])
             /\ StepOn(last.log[j], fs[1].partitions[q]))
                => fs[1].partitions[p].config.id <= fs[1].partitions[q].config.id

\* A disk created from a document that lists partition 2 before partition
\* 1: both were entered in the table and formatted.
C26_Witness ==
    /\ last.op = "Disk::create"
    /\ last.res = Ok
    /\ Len(fs[1].partitions) = 2
    /\ fs[1].partitions[1].config.id = 1
    /\ fs[1].partitions[1].config.label = "d1p2"
    /\ fs[1].partitions[2].config.label = "d1p1"
    /\ \E i, j \in 1..Len(last.log) :
        /\ i < j
        /\ IsLuksFormat(last.log[i])
        /\ StepOn(last.log[i], fs[1].partitions[1])
        /\ last.log[j][1] = "mkfs.ext4"
        /\ StepOn(last.log[j], fs[1].partitions[2])

-----------------------------------------------------------------------------
PartId(f, n) == f[n.d].partitions[n.p].config.id

\* Node n comes before node m of the same disk in depth-first order:
\* partitions by ascending id, a partition before what is nested in it,
\* volumes before pooled filesystems, and list order inside each kind.
DepthFirstBefore(f, n, m) ==
    \/ PartId(f, n) < PartId(f, m)
    \/ /\ n.p = m.p
       /\ \/ n.kind = "Partition" /\ m.kind # "Partition"
          \/ n.kind = "Volume" /\ m.kind = "Filesystem"
          \/ n.kind = m.kind /\ n.i < m.i

\* C27: when several nodes qualify, the root lookup returns the first one
\* in depth-first order (partitions by ascending id, a root partition
\* before anything nested in it, volumes before pooled filesystems); a node
\* nested in a partition not flagged as hosting the system is never
\* returned.
C27_DepthFirstOrder ==
    last.op = "find_root" =>
        /\ Cardinality(RootQualified(fs)) > 1 =>
            /\ last.res = Ok
            /\ last.node \in RootQualified(fs)
            /\ \A m \in RootQualified(fs) \ {last.node} :
                    DepthFirstBefore(fs, last.node, m)
        /\ \A m \in RootFlagged(fs) :
            (m.kind # "Partition" /\ ~fs[m.d].partitions[m.p].config.is_system)
                => last.node # m

\* The document lists the nested partition second but gives it id 1: its
\* pooled filesystem and the other partition are flagged root, and the
\* lookup returned the pooled filesystem.
C27_Witness ==
    /\ last.op = "find_root"
    /\ fs[1].partitions[1].config.id = 1
    /\ fs[1].partitions[1].config.label = "d1p2"
    /\ RootQualified(fs) = {Handle("Filesystem", 1, 1, 1),
                            Handle("Partition", 1, 2, 0)}
    /\ last.res = Ok
    /\ last.node = Handle("Filesystem", 1, 1, 1)

-----------------------------------------------------------------------------
IsPoolTest(c) == c[1] = "zpool" /\ c[2] = "list" /\ Len(c) = 3

\* C28: pool_create issues import-all first and tests the name after it;
\* on the fresh-pool path export-all follows the test and precedes the
\* create; on the existing-pool path the add follows the test and neither
\* export-all nor create is issued; when import-all or export-all fails,
\* pool_create returns the error and issues neither create nor add.
C28_PoolCreateSequence ==
    last.op = "pool_create" =>
        /\ IsPoolImport(last.log[1])
        /\ \A i \in 1..Len(last.log) :
            /\ IsPoolImport(last.log[i]) => i = 1
            /\ IsPoolTest(last.log[i]) =>
                i = 2 /\ last.log[i][3] = PoolNames[last.d]
            /\ IsPoolExport(last.log[i]) => i = 3
            /\ IsPoolCreate(last.log[i]) =>
                i = 4 /\ IsPoolTest(last.log[2]) /\ IsPoolExport(last.log[3])
            /\ IsPoolAdd(last.log[i]) =>
                /\ i = 3
                /\ IsPoolTest(last.log[2])
                /\ \A j \in 1..Len(last.log) :
                    ~IsPoolExport(last.log[j]) /\ ~IsPoolCreate(last.log[j])
        /\ (/\ last.fail \in 1..Len(last.log)
            /\ IsPoolImport(last.log[last.fail])
                \/ IsPoolExport(last.log[last.fail]))
                => /\ last.res = command_error("zpool")
                   /\ Len(last.log) = last.fail
                   /\ \A j \in 1..Len(last.log) :
                        ~IsPoolAdd(last.log[j]) /\ ~IsPoolCreate(last.log[j])

\* A second pool created on the fresh-pool path: the first pool was
\* imported, the name tested, every pool exported, then the pool created.
C28_Witness ==
    /\ last.op = "pool_create"
    /\ last.res = Ok
    /\ last.d = 2
    /\ Len(last.log) = 4
    /\ IsPoolExport(last.log[3])
    /\ IsPoolCreate(last.log[4])
    /\ "pool1" \in Range(world.exported)
    /\ "pool2" \in Range(world.pools)

-----------------------------------------------------------------------------
\* A process restart: the tree is written and loaded again; the namespace
\* stays as the earlier process left it.
Restart ==
    /\ last.op # "restart"
    /\ fs' = Filesystem_from_json(Filesystem_to_json(fs)).fs
    /\ world' = world
    /\ last' = [NoOp EXCEPT !.op = "restart"]

NextRestart ==
    \/ PartitionMount
    \/ PartitionUnmount
    \/ VolumeMount
    \/ VolumeUnmount
    \/ FilesystemMount
    \/ FilesystemUnmount
    \/ Restart

SpecRestart == InitMount /\ [][NextRestart]_vars

\* C29: mount of a node whose device is already mounted in the namespace
\* while its mounted flag is not set issues no mount command and succeeds.
C29_MountedExternallyQuiet ==
    [][(/\ last'.op \in MountOps
        /\ ~MountedFlag(fs, last')
        /\ NodeSource(fs, last') \in world.mounted)
            => /\ last'.res = Ok
               /\ last'.log = <<>>]_vars

-----------------------------------------------------------------------------
\* install.rs: the command that installs the system on a layout that was
\* created before.

EfiPoint == MountPoint \o "/boot/efi"

LocalRepo == "/tmp/repo-nixos"

\* git clone when the repository is a remote one, cp -rf, then the symlink
\* of the host configuration.
install_nixos_repository(m, repo, dest, remote, linked) ==
    IF m.res # Ok THEN m
    ELSE LET m1 == IF remote
                   THEN command_output(m, <<"git", "clone", repo, LocalRepo>>)
                   ELSE m
             m2 == command_output(m1,
                        <<"cp", "-rf", IF remote THEN LocalRepo ELSE repo, dest>>)
         IN  IF m2.res # Ok \/ linked THEN m2
             ELSE Fail(m2, generic_error("Cannot symlink the configuration"))

run_nixos_installer(m, root) ==
    command_output(m, <<"nixos-install", "--no-root-passwd", "--root", root>>)

\* fs.find_system_disk()?.find_..._partition()?.mount(..)? and .unmount()?
Lookup_mount(m, found, mountpoint) ==
    IF m.res # Ok THEN m
    ELSE IF found.res # Ok THEN Fail(m, found.res)
    ELSE Node_mount(m, found.node, mountpoint)

Lookup_unmount(m, found) ==
    IF m.res # Ok THEN m
    ELSE IF found.res # Ok THEN Fail(m, found.res)
    ELSE Node_unmount(m, found.node)

\* Faulty variant of install_nixos: the EFI target is mounted first and
\* unmounted last.
install_nixos_efi_first(m, repo, remote, linked) ==
    Only({Only({Only({Only({Only({Lookup_unmount(m5, find_efi(m5.fs)) :
        m5 \in {Lookup_unmount(m4, find_root(m4.fs))}}) :
        m4 \in {run_nixos_installer(m3, MountPoint)}}) :
        m3 \in {install_nixos_repository(m2, repo, MountPoint \o "/etc",
                                         remote, linked)}}) :
        m2 \in {Lookup_mount(m1, find_root(m1.fs), MountPoint)}}) :
        m1 \in {Lookup_mount(m, find_efi(m.fs), EfiPoint)}})

\* Faulty variant of install_nixos: when the mount of the EFI target fails,
\* root is unmounted before the error is returned.
install_nixos_unwind(m, repo, remote, linked) ==
    Only({Only({
        IF m1.res = Ok /\ m2.res # Ok /\ find_efi(m1.fs).res = Ok
        THEN [Lookup_unmount([m2 EXCEPT !.res = Ok], find_root(m2.fs))
                EXCEPT !.res = m2.res]
        ELSE Only({Only({Only({Lookup_unmount(m5, find_root(m5.fs)) :
                m5 \in {Lookup_unmount(m4, find_efi(m4.fs))}}) :
                m4 \in {run_nixos_installer(m3, MountPoint)}}) :
                m3 \in {install_nixos_repository(m2, repo, MountPoint \o "/etc",
                                                 remote, linked)}}) :
        m2 \in {Lookup_mount(m1, find_efi(m1.fs), EfiPoint)}}) :
        m1 \in {Lookup_mount(m, find_root(m.fs), MountPoint)}})

install_nixos(m, repo, remote, linked) ==
    Only({Only({Only({Only({Only({Lookup_unmount(m5, find_root(m5.fs)) :
        m5 \in {Lookup_unmount(m4, find_efi(m4.fs))}}) :
        m4 \in {run_nixos_installer(m3, MountPoint)}}) :
        m3 \in {install_nixos_repository(m2, repo, MountPoint \o "/etc",
                                         remote, linked)}}) :
        m2 \in {Lookup_mount(m1, find_efi(m1.fs), EfiPoint)}}) :
        m1 \in {Lookup_mount(m, find_root(m.fs), MountPoint)}})

\* from_json(..)?; fs.open(..)?; install_nixos(..)?; fs.close()?
Install_process(loaded, w, k, repo, remote, linked) ==
    Only({Only({Filesystem_close(installed) :
                    installed \in {install_nixos(opened, repo, remote, linked)}}) :
            opened \in {Filesystem_open(Secrets_start(loaded, w, k, 0),
                                        Passphrase)}})

\* The document with node efi (a partition or a volume, if any) tagged as
\* the EFI target.
WithEfi(config, efi) ==
    [disks |->
        [d \in DOMAIN config.disks |->
            [config.disks[d] EXCEPT !.partitions =
                [p \in DOMAIN config.disks[d].partitions |->
                    LET part == config.disks[d].partitions[p]
                    IN  [part EXCEPT
                            !.partition_type =
                                IF efi = Handle("Partition", d, p, 0)
                                THEN "efi" ELSE part.partition_type,
                            !.lvm = [v \in DOMAIN part.lvm |->
                                [part.lvm[v] EXCEPT !.volume_type =
                                    IF efi = Handle("Volume", d, p, v)
                                    THEN "efi" ELSE part.lvm[v].volume_type]]]]]]]

Repos == {"/root/nixos", "https://github.com/user/nixos"}

Install ==
    /\ last.op = "none"
    /\ \E repo \in Repos : \E linked \in BOOLEAN :
       \E loaded \in {Filesystem_from_json(last.doc)} :
       \E remote \in {repo = "https://github.com/user/nixos"} :
       \E full \in {Install_process(loaded, world, 0, repo, remote, linked).log} :
       \E k \in 0..Len(full) :
       \E m \in {Install_process(loaded, world, k, repo, remote, linked)} :
            /\ fs' = m.fs
            /\ world' = m.world
            /\ last' = Installed("install", m, find_root(loaded.fs).node,
                                 last.doc)

\* The documents of the created layouts, every disk flagged as containing
\* the system or none, every partition as hosting it or none, with at most
\* one root node and at most one EFI node, both on the first disk.
InitInstall ==
    /\ fs = <<>>
    /\ \E nd \in 1..MaxDisks : \E np \in 1..MaxParts :
       \E done \in {Partitioned(Layout(nd, np, 1, 0))} :
       \E system \in BOOLEAN : \E hosting \in BOOLEAN :
       \E root \in {NoNode} \cup {n \in TreeNodes(done.m.fs) : n.d = 1} :
       \E efi \in {NoNode} \cup {n \in TreeNodes(done.m.fs) :
                                    n.d = 1 /\ n.kind # "Filesystem"} :
            /\ world = done.m.world
            /\ last = Installed("none", Ctx(<<>>, world, 0), NoNode,
                            json_to_string(WithEfi(WithRoles(
                                load_json(done.written[1]),
                                system, hosting, root), efi)))

NextInstall == Install

SpecInstall == InitInstall /\ [][NextInstall]_vars

IsMount(c) == c[1] = "mount"

MountsAt(mountpoint) ==
    {i \in 1..Len(last.log) :
        IsMount(last.log[i]) /\ Target(last.log[i]) = mountpoint}

IsOpenStep(c) == IsLuksOpen(c) \/ IsVgActivate(c) \/ IsPoolImport(c)

UnmountsOf(i) ==
    {j \in 1..Len(last.log) :
        last.log[j] = <<"umount", MountSource(last.log[i])>>}

Encrypted(f) ==
    {n \in TreeNodes(f) : n.kind = "Partition" /\ NodeConfig(f, n).encrypted}

MountedNodes(f) ==
    {n \in TreeNodes(f) :
        CASE n.kind = "Partition" -> f[n.d].partitions[n.p].mounted
          [] n.kind = "Volume" -> f[n.d].partitions[n.p].lvm.volumes[n.i].mounted
          [] n.kind = "Filesystem" ->
                f[n.d].partitions[n.p].zfs.filesystems[n.i].mounted}

\* C30: in a successful install every mount follows every step that opens
\* the layout (each encrypted partition having been opened), root is
\* mounted before the EFI target, the EFI target is unmounted before root,
\* and at the end every node mounted is unmounted and the layout is closed.
C30_InstallSequence ==
    (last.op = "install" /\ last.res = Ok) =>
        /\ MountsAt(MountPoint) # {}
        /\ \A i \in MountsAt(MountPoint) \cup MountsAt(EfiPoint) :
            /\ \A j \in 1..Len(last.log) : IsOpenStep(last.log[j]) => j < i
            /\ \E j \in UnmountsOf(i) : i < j
        /\ Cardinality({j \in 1..Len(last.log) : IsLuksOpen(last.log[j])})
                = Cardinality(Encrypted(fs))
        /\ \A i \in MountsAt(MountPoint) : \A j \in MountsAt(EfiPoint) :
            /\ i < j
            /\ \A a \in UnmountsOf(j) : \A b \in UnmountsOf(i) : a < b
        /\ MountedNodes(fs) = {}
        /\ world.mounted = {}
        /\ \A n \in TreeNodes(fs) :
            /\ ~fs[n.d].partitions[n.p].opened
            /\ ~fs[n.d].partitions[n.p].lvm.opened
        /\ world.mapper = {}
        /\ world.vgs = {}
        /\ world.pools = <<>>

\* A successful install on two disks: root is the pooled filesystem of the
\* second partition and the EFI target is the second volume of the first.
C30_Witness ==
    /\ last.op = "install"
    /\ last.res = Ok
    /\ Len(fs) = 2
    /\ last.target = Handle("Filesystem", 1, 2, 1)
    /\ \E i \in MountsAt(MountPoint) : \E j \in MountsAt(EfiPoint) :
        /\ last.log[i] = <<"mount", "-t", "zfs", "d1p2/fs1", MountPoint>>
        /\ last.log[j] = <<"mount", "/dev/vg-d1p1/lv2", EfiPoint>>
        /\ \E a \in UnmountsOf(j) : \E b \in UnmountsOf(i) : a < b
    /\ \E j \in 1..Len(last.log) : IsLuksOpen(last.log[j])

-----------------------------------------------------------------------------
\* The installer and the secret installer, each run once on the document
\* of a created layout.

NextCommands == Install \/ Secrets

SpecCommands == InitInstall /\ [][NextCommands]_vars

IsUnmount(c) == c[1] = "umount"

\* The mounts issued before the failing command and not unmounted since.
LeftMounted ==
    {MountSource(last.log[i]) : i \in
        {j \in 1..(last.fail - 1) :
            /\ IsMount(last.log[j])
            /\ \A u \in (j + 1)..(last.fail - 1) :
                last.log[u] # <<"umount", MountSource(last.log[j])>>}}

\* The mappers opened before the failing command and not closed since.
LeftOpen ==
    {last.log[j][4] : j \in
        {i \in 1..(last.fail - 1) :
            /\ IsLuksOpen(last.log[i])
            /\ \A u \in (i + 1)..(last.fail - 1) : ~IsLuksClose(last.log[u])}}

\* C31: when the mount or umount command of a node fails, the installer
\* and the secret installer return the error of that command, the failing
\* command is the last step they issue, and what was mounted or opened
\* before it stays mounted and open.
C31_MountFailureFatal ==
    (/\ last.op \in {"install", "secrets"}
     /\ last.fail \in 1..Len(last.log)
     /\ IsMount(last.log[last.fail]) \/ IsUnmount(last.log[last.fail]))
    => /\ last.res = command_error(last.log[last.fail][1])
       /\ Len(last.log) = last.fail
       /\ LeftMounted \subseteq world.mounted
       /\ LeftOpen \subseteq world.mapper

\* The installer mounted root, the mount of the EFI target failed, and
\* root is still mounted and a mapper still open when it returns.
C31_Witness ==
    /\ last.op = "install"
    /\ last.fail \in 2..Len(last.log)
    /\ IsMount(last.log[last.fail])
    /\ Target(last.log[last.fail]) = EfiPoint
    /\ IsMount(last.log[last.fail - 1])
    /\ LeftMounted # {}
    /\ LeftOpen # {}
    /\ last.res # Ok

-----------------------------------------------------------------------------
\* Create then close in one process (partitioning.rs, Command::process).

\* A layout of one partition of any shape, never created.
InitShapes ==
    \E layout \in ShapeLayouts :
        /\ fs = Filesystem_from_config(layout)
        /\ world = EmptyWorld
        /\ last = NoOp

SpecShapes == InitShapes /\ [][Next]_vars

IsVgCreate(c) == c[1] = "vgcreate"

CreateThenClose ==
    /\ last.op = "Filesystem::create"
    /\ last.res = Ok
    /\ last'.op = "Filesystem::close"
    /\ last'.res = Ok

\* C32: after a successful Filesystem::create followed by a successful
\* Filesystem::close, no volume group that the creation created is active
\* and no mapper that the creation opened is open.
C32_ClosedAfterCreate ==
    [][CreateThenClose =>
        \A i \in 1..Len(last.log) :
            /\ IsVgCreate(last.log[i]) => last.log[i][2] \notin world'.vgs
            /\ IsLuksOpen(last.log[i]) => last.log[i][4] \notin world'.mapper]_vars

\* The part of C32 that holds: the mappers are closed, and so are the
\* volume groups that sit on an encrypted partition.
C32_MappersClosed ==
    [][CreateThenClose =>
        \A i \in 1..Len(last.log) :
            /\ IsLuksOpen(last.log[i]) => last.log[i][4] \notin world'.mapper
            /\ (IsVgCreate(last.log[i]) /\ last.log[i][2] \in world'.vgs) =>
                \A j \in 1..Len(last.log) :
                    IsLuksOpen(last.log[j]) =>
                        "vg-" \o last.log[j][4] # last.log[i][2]]_vars

-----------------------------------------------------------------------------
\* A partition created, formatted and mounted in one process.

NextFormatMount == PartitionCreate \/ PartitionFormat \/ PartitionMount

SpecFormatMount == InitFormat /\ [][NextFormatMount]_vars

IsMkfs(c) == c[1] \in {"mkfs.ext4", "mkfs.fat", "mkswap"}

\* Partition::mount issues its command on the partition just formatted,
\* which carries neither a volume group nor a pooled filesystem.
MountAfterFormat ==
    /\ last.op = "Partition::format"
    /\ last.res = Ok
    /\ last'.op = "Partition::mount"
    /\ last'.d = last.d
    /\ last'.p = last.p
    /\ last'.log # <<>>
    /\ ~Lvm_is_valid(LastPart.lvm)
    /\ ~Filesystems_is_valid(LastPart.zfs)

\* C33: for a partition formatted directly, the device that
\* Partition::mount hands to the mount command is the device on which
\* Partition::format created the filesystem.
C33_MountsFormattedDevice ==
    [][MountAfterFormat =>
        \A i \in 1..Len(last.log) :
            IsMkfs(last.log[i]) =>
                Target(last.log[i]) = MountSource(last'.log[1])]_vars

\* The part of C33 that holds: the two devices are the same on an
\* unencrypted partition.
C33_UnencryptedSameDevice ==
    [][(MountAfterFormat /\ ~LastPart.config.encrypted) =>
        \A i \in 1..Len(last.log) :
            IsMkfs(last.log[i]) =>
                Target(last.log[i]) = MountSource(last'.log[1])]_vars

-----------------------------------------------------------------------------
\* Partition ids as validation admits them: any id but 0, repeated or not.

IdChoices == UNION {[1..n -> 1..MaxId] : n \in 1..MaxParts}

InitTable ==
    \E ids \in IdChoices :
    \E unlinked \in {{}} \cup {{DiskNames[1] \o ToString(n)} : n \in 1..MaxParts} :
        /\ Disk_Config_is_valid(IdLayout(ids).disks[1])
        /\ fs = Filesystem_from_config(IdLayout(ids))
        /\ world = [EmptyWorld EXCEPT !.unlinked = unlinked]
        /\ last = NoOp

SpecTable == InitTable /\ [][NextIds]_vars

\* Pass 1 of Disk::create succeeded: every partition of the disk has its
\* device and its by-id path recorded.
PassOneDone ==
    /\ last.op = "Disk::create"
    /\ \A p \in DOMAIN fs[last.d].partitions :
        fs[last.d].partitions[p].config.device_by_id # None

\* C34: after pass 1 of Disk::create succeeds, no two partitions of the
\* disk have the same recorded device or the same recorded by-id path, and
\* the recorded device of the p-th partition created is the p-th entry of
\* the table.
C34_DistinctDevices ==
    PassOneDone =>
        \A p \in DOMAIN fs[last.d].partitions :
            /\ fs[last.d].partitions[p].config.device
                    = fs[last.d].config.device \o ToString(p)
            /\ \A q \in DOMAIN fs[last.d].partitions :
                p # q =>
                    /\ fs[last.d].partitions[p].config.device
                            # fs[last.d].partitions[q].config.device
                    /\ fs[last.d].partitions[p].config.device_by_id
                            # fs[last.d].partitions[q].config.device_by_id

\* The part of C34 that holds: the same, when no id is repeated.
C34_DistinctIds ==
    (/\ PassOneDone
     /\ \A p, q \in DOMAIN fs[last.d].partitions :
            p # q => fs[last.d].partitions[p].config.id
                        # fs[last.d].partitions[q].config.id)
        => \A p \in DOMAIN fs[last.d].partitions :
            /\ fs[last.d].partitions[p].config.device
                    = fs[last.d].config.device \o ToString(p)
            /\ \A q \in DOMAIN fs[last.d].partitions :
                p # q =>
                    /\ fs[last.d].partitions[p].config.device
                            # fs[last.d].partitions[q].config.device
                    /\ fs[last.d].partitions[p].config.device_by_id
                            # fs[last.d].partitions[q].config.device_by_id

-----------------------------------------------------------------------------
\* The handlers of one partition and of its nodes, on the tree of a layout
\* that was never created or on the tree of a created layout loaded again.

InitNodes ==
    \/ InitCreated(ShapeLayouts)
    \/ \E layout \in ShapeLayouts :
        /\ Filesystem_Config_is_valid(layout)
        /\ fs = Filesystem_from_config(layout)
        /\ world = EmptyWorld
        /\ last = NoOp

NextNodes == NextOpen \/ NextMount

SpecNodes == InitNodes /\ [][NextNodes]_vars

\* No resolved field of the tree is set.
NeverCreated ==
    \A d \in DOMAIN fs : \A p \in DOMAIN fs[d].partitions :
        /\ fs[d].partitions[p].config.device = None
        /\ fs[d].partitions[p].config.device_by_id = None
        /\ fs[d].partitions[p].config.luks_mapper = None

\* C35: on the tree of a validated layout that was never created, every
\* open, close, mount and unmount returns success or an error; none aborts
\* the process.
C35_NoAbort == NeverCreated => last.res # Panic

\* The part of C35 that holds: on such a tree the handlers of the volume
\* group, of the volumes and of the pooled filesystems, and close and
\* unmount of the partition, return a value.
C35_OthersReturn ==
    (/\ NeverCreated
     /\ last.op \notin {"Partition::open", "Partition::mount"})
        => last.res # Panic

-----------------------------------------------------------------------------
\* The secret installer against the root lookup of the installer.

\* What find_system_disk()?.find_root_partition() answers on the document.
RootLookup == find_root(Filesystem_from_json(last.doc).fs)

IsKeyfileStep(c) == c[1] = "chmod"

\* C36: the node on which the secret installer installs the key file is
\* the node the root lookup returns, and the secret installer fails
\* whenever the root lookup fails.
C36_SecretsFollowsLookup ==
    last.op = "secrets" =>
        /\ RootLookup.res = Ok => last.target = RootLookup.node
        /\ RootLookup.res # Ok =>
            /\ last.res # Ok
            /\ \A i \in 1..Len(last.log) : ~IsKeyfileStep(last.log[i])

\* The part of C36 that holds: when the root lookup succeeds, the secret
\* installer stops at the node it returns.
C36_AgreeWhenFound ==
    (last.op = "secrets" /\ RootLookup.res = Ok) =>
        last.target = RootLookup.node

-----------------------------------------------------------------------------
\* Flags and failing commands.

\* The command of the call recorded in l that failed, if one did.
Failed(l) ==
    IF l.fail \in 1..Len(l.log) /\ ~IsStatusQuery(l.log[l.fail])
    THEN l.log[l.fail] ELSE <<"none">>

IsVgChange(c) == c[1] = "vgchange"

IsLuksStep(c) == c[1] = "cryptsetup"

\* The mounted flags of the nodes of partition part.
MountedFlags(part) ==
    <<part.mounted,
      [v \in DOMAIN part.lvm.volumes |-> part.lvm.volumes[v].mounted],
      [z \in DOMAIN part.zfs.filesystems |-> part.zfs.filesystems[z].mounted]>>

\* Some command of the call recorded in l, of the kind is, succeeded.
Succeeded(l, is(_)) ==
    \E i \in 1..Len(l.log) : is(l.log[i]) /\ i # l.fail

NodeOps == OpenCloseOps \cup MountOps \cup UnmountOps

\* C37: when the command of a mount, unmount, open or close fails, the call
\* returns an error and the flag of the node whose command failed keeps its
\* value (with the flag of the partition, when the command is that of its
\* volume group); a flag that changes does so in a call in which its own
\* command succeeded, and the opened flag of a partition only in a call
\* that succeeded as a whole.
C37_FlagAfterSuccess ==
    [][last'.op \in NodeOps =>
        LET old == fs[last'.d].partitions[last'.p]
            new == fs'[last'.d].partitions[last'.p]
            c == Failed(last')
        IN  /\ c # <<"none">> => last'.res # Ok
            /\ (IsMount(c) \/ IsUnmount(c)) => MountedFlags(new) = MountedFlags(old)
            /\ IsVgChange(c) =>
                /\ new.lvm.opened = old.lvm.opened
                /\ new.opened = old.opened
            /\ IsLuksStep(c) => new.opened = old.opened
            /\ new.opened # old.opened => last'.res = Ok
            /\ new.lvm.opened # old.lvm.opened => Succeeded(last', IsVgChange)
            /\ (MountedFlags(new) # MountedFlags(old) /\ ~new.mounted /\ old.mounted)
                    => Succeeded(last', IsUnmount)
            /\ (MountedFlags(new) # MountedFlags(old) /\ new.mounted /\ ~old.mounted)
                    => Succeeded(last', IsMount)
            /\ MountedFlags(new) # MountedFlags(old)
                    => Succeeded(last', IsMount) \/ Succeeded(last', IsUnmount)]_vars

\* The umount of a mounted partition failed and the partition is still
\* flagged as mounted.
C37_Witness ==
    /\ last.op = "Partition::unmount"
    /\ last.fail = 1
    /\ Len(last.log) = 1
    /\ IsUnmount(last.log[1])
    /\ last.res # Ok
    /\ LastPart.mounted

-----------------------------------------------------------------------------
\* Close after an open that failed half-way.

\* Partition::open opened the mapper, failed at the activation of the
\* volume group, and Partition::close of the same partition then succeeds
\* and leaves the partition closed.
CloseAfterFailedOpen ==
    /\ last.op = "Partition::open"
    /\ last.res # Ok
    /\ IsVgActivate(Failed(last))
    /\ \E i \in 1..(last.fail - 1) : IsLuksOpen(last.log[i])
    /\ last'.op = "Partition::close"
    /\ last'.d = last.d
    /\ last'.p = last.p
    /\ last'.res = Ok
    /\ ~fs'[last.d].partitions[last.p].opened

\* C38: if Partition::open fails at volume-group activation after it opened
\* the mapper, a following successful close of the partition closes that
\* mapper.
C38_CloseReleasesMapper ==
    [][CloseAfterFailedOpen =>
        \A i \in 1..(last.fail - 1) :
            IsLuksOpen(last.log[i]) => last.log[i][4] \notin world'.mapper]_vars

\* What the code does in that case: close returns at its opened test,
\* issues no command and leaves the namespace as it was.
C38_CloseIsQuiet ==
    [][CloseAfterFailedOpen => (last'.log = <<>> /\ world' = world)]_vars

====
